---- MODULE Spec2Model ----
(***************************************************************************)
(* Exam-paper generation orchestrator of CogniLoop: one job of one owner   *)
(* (teacher), its quota grant, the background run (_run_async), the        *)
(* per-position pipelines of ExamPaperGenerator and the assembler.         *)
(***************************************************************************)
EXTENDS Integers, Sequences, FiniteSets, TLC

\* ------------------------------------------------------------------ bounds
\* number of question positions of the modelled requirement
NumPos == 2
\* configuration value exam_agent_max_retry of the modelled deployment
MaxRetry == 1
\* configuration value exam_agent_solve_count (K) of the modelled deployment
SolveCount == 1
\* configuration value exam_agent_concurrency of the modelled deployment
Concurrency == 1
\* number of Resume requests the model lets the owner make
MaxResume == 1
\* number of runs of other jobs of the same owner the model lets complete
MaxOther == 1
\* number of questions of those other jobs
OtherQuestions == 1
\* the quota service on its own: debits of the largest estimate the used
\* counter is followed over
MaxDebits == 2
\* number of regenerate_question requests the model lets through its checks
MaxRegen == 1
\* text of the first candidate of a regeneration
RegenTextBase == 10
\* the generator on its own: positions of the requirement, all of one type
GenPos == 3
\* the calibrator on its own: every K up to this one is tried
CalibK == 5
\* the calibrator on its own: largest retry_count and max_retry
CalibRetry == 2
\* the generator with a cancelling caller: positions of the requirement
CancelPos == 2
\* the generator on its own: largest exam_agent_concurrency
GenConcurrency == 2
\* the generator on its own: exam_agent_solve_count
GenSolveCount == 2

\* ------------------------------------------------------- program constants
\* default of exam_agent_avg_tokens_per_question
AvgTokensPerQuestion == 15000
\* solve count that generate_paper passes to estimate_tokens
SubmitSolveCount == 5

\* DifficultyDistribution defaults, in tenths
DistEasy == 3
DistMedium == 5

\* --------------------------------------------------------------- helpers
Max(a, b) == IF a >= b THEN a ELSE b

RECURSIVE SumCounts(_)
SumCounts(dist) ==
    IF dist = << >> THEN 0 ELSE Head(dist).count + SumCounts(Tail(dist))

\* dict(f) updated with g: keys of g override keys of f
DictUpdate(f, g) ==
    [k \in (DOMAIN f) \cup (DOMAIN g) |-> IF k \in DOMAIN g THEN g[k] ELSE f[k]]

EmptyDict == << >>

\* the elements of set S of integers in increasing order
RECURSIVE SortedSeq(_)
SortedSeq(S) ==
    IF S = {} THEN << >>
    ELSE LET m == CHOOSE x \in S : \A y \in S : x <= y
         IN  <<m>> \o SortedSeq(S \ {m})

\* ------------------------------------------------------------ requirement
\* GenerateRequest.question_distribution of the modelled job
question_distribution ==
    << [question_type |-> "single_choice", count |-> NumPos - 1],
       [question_type |-> "fill_blank", count |-> 1] >>

\* generate_paper: total_questions = sum(c.count for c in question_distribution)
total_questions == SumCounts(question_distribution)

\* estimate_tokens: int(total * avg * (1 + 0.5 + 0.3k + 0.3k) * 1.2); the exact
\* quotient below equals the float evaluation for the values the model uses
estimate_tokens(n, solve_count) ==
    (n * AvgTokensPerQuestion * (15 + 6 * solve_count) * 12) \div 100

\* the debit of a run of another job of the owner
OtherEstimate == estimate_tokens(OtherQuestions, SolveCount)

\* ----------------------------------------------------------------- quota
\* TeacherExamPermission row; exists = FALSE stands for "no row";
\* quota_none = TRUE stands for monthly_quota IS NULL
NoPermission ==
    [exists |-> FALSE, is_enabled |-> FALSE, quota_none |-> TRUE,
     monthly_quota |-> 0, token_used |-> 0]

\* caps an administrator may grant (NULL is modelled by quota_none)
CapChoices == {0, estimate_tokens(total_questions, SubmitSolveCount)}

\* check_quota refusing the estimate that exactly fits
check_quota_wrong_compare(p, estimated_tokens) ==
    IF ~p.exists \/ ~p.is_enabled THEN FALSE
    ELSE IF p.quota_none THEN TRUE
    ELSE ~(p.monthly_quota - p.token_used <= estimated_tokens)

\* check_quota comparing the estimate with the cap alone
check_quota_ignores_used(p, estimated_tokens) ==
    IF ~p.exists \/ ~p.is_enabled THEN FALSE
    ELSE IF p.quota_none THEN TRUE
    ELSE ~(p.monthly_quota < estimated_tokens)

\* ExamPermissionService.check_quota: the ok component of its result
check_quota(p, estimated_tokens) ==
    IF ~p.exists \/ ~p.is_enabled THEN FALSE
    ELSE IF p.quota_none THEN TRUE
    ELSE ~(p.monthly_quota - p.token_used < estimated_tokens)

\* ExamPermissionService.consume_tokens on row p
consume_tokens(p, tokens) ==
    IF p.exists THEN [p EXCEPT !.token_used = p.token_used + tokens] ELSE p

\* ExamPermissionService.grant
grant(p, none, quota) ==
    IF p.exists
    THEN [p EXCEPT !.is_enabled = TRUE, !.quota_none = none,
                   !.monthly_quota = IF none THEN 0 ELSE quota]
    ELSE [exists |-> TRUE, is_enabled |-> TRUE, quota_none |-> none,
          monthly_quota |-> IF none THEN 0 ELSE quota, token_used |-> 0]

\* ExamPermissionService.revoke
revoke(p) == IF p.exists THEN [p EXCEPT !.is_enabled = FALSE] ELSE p

\* ----------------------------------------------------------- task builder
\* one slot per requested question, in the order dispatch walks the distribution
RECURSIVE ExpandDistribution(_)
ExpandDistribution(dist) ==
    IF dist = << >> THEN << >>
    ELSE LET tc == Head(dist)
         IN  [q \in 1..Max(tc.count, 0) |->
                 [question_type |-> tc.question_type, q_idx |-> q - 1,
                  count |-> tc.count]]
             \o ExpandDistribution(Tail(dist))

\* DifficultyDistribution with its defaults; the shares are in tenths
DifficultyDistribution ==
    [easy |-> DistEasy, medium |-> DistMedium, hard |-> 10 - DistEasy - DistMedium]

\* dispatch: ratio = q_idx / max(total - 1, 1) against dist.easy and
\* dist.easy + dist.medium; dist.hard is not read
target_diff_of(dist, q_idx, total) ==
    LET den == Max(total - 1, 1)
    IN  IF q_idx * 10 < dist.easy * den THEN "easy"
        ELSE IF q_idx * 10 < (dist.easy + dist.medium) * den THEN "medium"
        ELSE "hard"

\* the target under the distribution every stored requirement carries
target_diff(q_idx, total) == target_diff_of(DifficultyDistribution, q_idx, total)

NewTaskOf(dist, slot, pos) ==
    [task_id |-> [kind |-> "task", pos |-> pos],
     question_type |-> slot.question_type,
     position_index |-> pos,
     target_difficulty_level |-> target_diff_of(dist, slot.q_idx, slot.count),
     retry_feedback |-> "none",
     retry_count |-> 0]

NewTask(slot, pos) == NewTaskOf(DifficultyDistribution, slot, pos)

\* the loop of dispatch with a position counter that a skipped slot leaves alone
RECURSIVE count_emitted_only(_, _, _, _)
count_emitted_only(dist, slots, position_index, already_done_positions) ==
    IF slots = << >> THEN << >>
    ELSE LET pos == position_index + 1
         IN  IF pos \in already_done_positions
             THEN count_emitted_only(dist, Tail(slots), position_index,
                                     already_done_positions \ {pos})
             ELSE <<NewTaskOf(dist, Head(slots), pos)>>
                  \o count_emitted_only(dist, Tail(slots), pos,
                                        already_done_positions)

\* the loop of dispatch over the slots: the position counter advances for
\* every slot, a slot whose position is already done adds no task
RECURSIVE BuildTasksOf(_, _, _, _)
BuildTasksOf(dist, slots, position_index, already_done_positions) ==
    IF slots = << >> THEN << >>
    ELSE LET pos == position_index + 1
             rest == BuildTasksOf(dist, Tail(slots), pos, already_done_positions)
         IN  IF pos \in already_done_positions THEN rest
             ELSE <<NewTaskOf(dist, Head(slots), pos)>> \o rest

BuildTasks(slots, position_index, already_done_positions) ==
    BuildTasksOf(DifficultyDistribution, slots, position_index,
                 already_done_positions)

\* DispatchAgent.dispatch for a requirement with its own difficulty shares
dispatch(requirement, already_done_positions) ==
    BuildTasksOf(requirement.difficulty_distribution,
                 ExpandDistribution(requirement.question_distribution), 0,
                 already_done_positions)

\* dispatch without its skip of the positions already done
dispatch_ignores_done(distribution, already_done_positions) ==
    BuildTasks(ExpandDistribution(distribution), 0, {})

\* DispatchAgent.dispatch: the QuestionTask list
DispatchAgent_dispatch(distribution, already_done_positions) ==
    BuildTasks(ExpandDistribution(distribution), 0, already_done_positions)

\* ---------------------------------------------------------------- questions
NoTaskId == [kind |-> "none", pos |-> 0]

\* Python None where an options dict is expected, and a dict given by its
\* items in insertion order
NoOptions == [is_none |-> TRUE, items |-> << >>]

OptionsDict(items) == [is_none |-> FALSE, items |-> items]

\* Python None where a GeneratedQuestion is expected
NoQuestion ==
    [task_id |-> NoTaskId, question_type |-> "none", question_text |-> -1,
     options |-> NoOptions, correct_answer |-> -1, explanation |-> -1,
     scoring_points |-> "null", knowledge_point |-> "none",
     target_difficulty_level |-> "none"]

ChoiceTypes == {"single_choice", "multiple_choice"}

\* QuestionAgent.run when it returns: the candidate of this round; the text,
\* the answer and the explanation of the candidate are identified by the round
\* that produced it; a choice question carries its options, the other types
\* carry none
QuestionAgent_run(task, round) ==
    [task_id |-> task.task_id, question_type |-> task.question_type,
     question_text |-> round,
     options |-> IF task.question_type \in ChoiceTypes
                 THEN OptionsDict(<< <<"A", round>>, <<"B", round + 1>> >>)
                 ELSE NoOptions,
     correct_answer |-> round,
     explanation |-> round,
     scoring_points |-> "null",
     knowledge_point |-> "inferred",
     target_difficulty_level |-> task.target_difficulty_level]

\* generate: the per-question JSON stored in completed_questions; a non-empty
\* options dict becomes a list of key/value objects, None and {} become null
SerializeQuestion(q) ==
    [type |-> q.question_type,
     content |-> q.question_text,
     options |-> IF ~q.options.is_none /\ q.options.items # << >>
                 THEN [null |-> FALSE,
                       list |-> [k \in 1..Len(q.options.items) |->
                                    [key |-> q.options.items[k][1],
                                     value |-> q.options.items[k][2]]]]
                 ELSE [null |-> TRUE, list |-> << >>],
     answer |-> q.correct_answer,
     explanation |-> q.explanation,
     scoring_points |-> q.scoring_points]

\* generate: a restored checkpoint entry as a GeneratedQuestion; a non-empty
\* options list becomes a dict again, knowledge point and target level are
\* left empty
DeserializeQuestion(pos, q_data) ==
    [task_id |-> [kind |-> "resume", pos |-> pos],
     question_type |-> q_data.type,
     question_text |-> q_data.content,
     options |-> IF ~q_data.options.null /\ q_data.options.list # << >>
                 THEN OptionsDict([k \in 1..Len(q_data.options.list) |->
                                      << q_data.options.list[k].key,
                                         q_data.options.list[k].value >>])
                 ELSE NoOptions,
     correct_answer |-> q_data.answer,
     explanation |-> q_data.explanation,
     scoring_points |-> q_data.scoring_points,
     knowledge_point |-> "",
     target_difficulty_level |-> ""]

\* -------------------------------------------------------------- calibrator
\* DIFFICULTY_TARGET_RANGES, in hundredths
\* target intervals with a hard bucket that starts at zero
TargetRangesFromZero(level) ==
    CASE level = "easy" -> <<65, 100>>
      [] level = "medium" -> <<40, 75>>
      [] level = "hard" -> <<0, 50>>
      [] OTHER -> <<40, 75>>

DIFFICULTY_TARGET_RANGES(level) ==
    CASE level = "easy" -> <<65, 100>>
      [] level = "medium" -> <<40, 75>>
      [] level = "hard" -> <<10, 50>>
      [] OTHER -> <<40, 75>>

ObjectiveTypes == {"single_choice", "multiple_choice", "fill_blank"}

RECURSIVE CountCorrect(_)
CountCorrect(gs) ==
    IF gs = << >> THEN 0
    ELSE (IF Head(gs).is_correct THEN 1 ELSE 0) + CountCorrect(Tail(gs))

RECURSIVE SumScore(_)
SumScore(gs) ==
    IF gs = << >> THEN 0 ELSE Head(gs).partial_score + SumScore(Tail(gs))

RECURSIVE CountPassing(_)
CountPassing(gs) ==
    IF gs = << >> THEN 0
    ELSE (IF Head(gs).partial_score >= 60 THEN 1 ELSE 0) + CountPassing(Tail(gs))

\* round(x, 4) of the fraction num / den, in ten-thousandths (ties to even)
Round4(num, den) ==
    LET q == (num * 10000) \div den
        r == (num * 10000) % den
    IN  IF 2 * r > den THEN q + 1
        ELSE IF 2 * r = den THEN q + (q % 2)
        ELSE q

\* DifficultyAgent.run; the coefficient the decision is made on is the fraction
\* coef_num / coef_den, the one returned is rounded; partial scores are in
\* hundredths
DifficultyAgent_run(question, grade_results, retry_count, max_retry) ==
    IF grade_results = << >>
    THEN [task_id |-> question.task_id, coef_num |-> 1, coef_den |-> 2,
          difficulty_coefficient |-> 5000,
          pass_count |-> 0, total_attempts |-> 0, decision |-> "approve",
          feedback |-> "no_data", retry_count |-> retry_count,
          difficulty_warning |-> FALSE]
    ELSE
    LET is_objective == question.question_type \in ObjectiveTypes
        total == Len(grade_results)
        pass_count == IF is_objective THEN CountCorrect(grade_results)
                      ELSE CountPassing(grade_results)
        num == IF is_objective THEN pass_count ELSE SumScore(grade_results)
        den == IF is_objective THEN total ELSE 100 * total
        range == DIFFICULTY_TARGET_RANGES(question.target_difficulty_level)
        in_range == range[1] * den <= 100 * num /\ 100 * num <= range[2] * den
        approve == in_range \/ retry_count >= max_retry
    IN  [task_id |-> question.task_id, coef_num |-> num, coef_den |-> den,
         difficulty_coefficient |-> Round4(num, den),
         pass_count |-> pass_count, total_attempts |-> total,
         decision |-> IF approve THEN "approve" ELSE "retry",
         feedback |-> IF approve THEN "none"
                      ELSE IF 100 * num > range[2] * den THEN "too_easy"
                      ELSE "too_hard",
         retry_count |-> retry_count,
         difficulty_warning |-> approve /\ ~in_range]

\* K grade results of which c are marked correct
GradeOutcomes(K, c) ==
    [k \in 1..K |->
        [is_correct |-> k <= c, partial_score |-> IF k <= c THEN 100 ELSE 0]]

\* --------------------------------------------------------------- assembler
Warning(kind, pos) == [kind |-> kind, pos |-> pos, numbers |-> << >>]

RECURSIVE DowngradeNumbers(_, _, _)
DowngradeNumbers(questions, i, difficulty_results) ==
    IF i > Len(questions) THEN << >>
    ELSE LET hit == \E j \in 1..Len(difficulty_results) :
                       /\ difficulty_results[j].task_id = questions[i].task_id
                       /\ difficulty_results[j].difficulty_warning
         IN  (IF hit THEN <<i>> ELSE << >>)
             \o DowngradeNumbers(questions, i + 1, difficulty_results)

\* AssembleAgent.run: the warnings and the numbered question list of the paper
AssembleAgent_run(approved_questions, difficulty_results) ==
    LET downgrade_positions == DowngradeNumbers(approved_questions, 1, difficulty_results)
    IN  [warnings |-> IF downgrade_positions # << >>
                      THEN << [kind |-> "assemble", pos |-> 0,
                               numbers |-> downgrade_positions] >>
                      ELSE << >>,
         questions |-> [i \in 1..Len(approved_questions) |->
                           [number |-> i, question |-> approved_questions[i]]]]

\* ------------------------------------------------------------------- state
VARIABLES
    job,              \* committed ExamPaperGenerationJob row of the job
    perm,             \* committed TeacherExamPermission row of the owner
    question_sets,    \* number of committed QuestionSet rows
    session,          \* rows as the run's own session holds them (flushed, uncommitted)
    rpc,              \* position of _run_async
    run,              \* locals of _run_async and of generate
    tasks,            \* generate: the QuestionTask list
    pipe,             \* generate: one _process_single_question coroutine per task
    semaphore,        \* generate: free slots of the asyncio.Semaphore
    quota_exhausted,  \* the asyncio.Event shared by the pipelines
    tracker,          \* JobProgressTracker of the run
    job_events,       \* job-lifecycle events pushed so far
    result,           \* return value of generate
    other,            \* session of a run of another job of the same owner
    quota_check,      \* outcome of the latest check_quota call
    hist,             \* how the latest invocation ended (running while one is
                      \* active) and the positions the latest run approved
    paper,            \* content of the file of the question set the job row links
    regen,            \* the regenerate_question request in progress
    calib,            \* the latest call of DifficultyAgent.run on its own
    disp,             \* the latest call of DispatchAgent.dispatch on its own
    retr,             \* the latest call of get_same_position_examples on its own
    bus,              \* the SSE queues of the job, its subscribers and the pushes
    guard             \* the job row under concurrent resume requests and runs

vars == <<job, perm, question_sets, session, rpc, run, tasks, pipe, semaphore,
          quota_exhausted, tracker, job_events, result, other, quota_check, hist,
          paper, regen, calib, disp, retr, bus, guard>>

NoJob ==
    [exists |-> FALSE, status |-> "none", completed_questions |-> EmptyDict,
     warnings |-> << >>, question_set_id |-> 0, token_consumed |-> 0,
     error_message |-> "", resume_count |-> 0]

NoDiff ==
    [task_id |-> NoTaskId, coef_num |-> 0, coef_den |-> 1,
     difficulty_coefficient |-> 0, pass_count |-> 0,
     total_attempts |-> 0, decision |-> "none", feedback |-> "none",
     retry_count |-> 0, difficulty_warning |-> FALSE]

NoSession == [job |-> NoJob, perm |-> NoPermission, perm_loaded |-> FALSE,
              question_sets |-> 0, paper |-> << >>]

NoRun ==
    [existing_questions |-> EmptyDict, already_done_positions |-> {},
     remaining_questions |-> 0, estimated |-> 0, max_retry |-> 0,
     concurrency |-> 0, solve_count |-> 0, perm_at_start |-> NoPermission]

NoResult ==
    [warnings |-> << >>, completed_questions |-> EmptyDict, questions |-> << >>]

NewTracker(total) ==
    [total |-> total, completed |-> 0, skipped |-> 0, current_actions |-> EmptyDict]

NewPipe ==
    [pc |-> "acquire", retry_count |-> 0, warnings |-> << >>,
     question |-> NoQuestion, diff_result |-> NoDiff, gen_calls |-> 0,
     force_pass |-> FALSE]

NoOther == [pc |-> "idle", token_used |-> 0, debits |-> 0]

NoQuotaCheck == [called |-> FALSE, estimated |-> 0, ok |-> FALSE, cap_reached |-> FALSE]

NoHist == [outcome |-> "none", approved |-> {}, in_flight |-> {}]

\* no question-set file
NoPaper == << >>

\* no regenerate_question request in progress
NoRegen ==
    [pc |-> "idle", position_index |-> 0, attempt |-> 0, question |-> NoQuestion,
     completed_questions |-> EmptyDict, token_used |-> 0, requests |-> 0,
     outcome |-> "none"]

\* no call of DispatchAgent.dispatch yet
NoDisp ==
    [called |-> FALSE, requirement |-> [question_distribution |-> << >>,
                                        difficulty_distribution |-> DifficultyDistribution],
     already_done_positions |-> {}, first |-> << >>, tasks |-> << >>]

\* no call of ExamRetriever.get_same_position_examples yet
NoRetr ==
    [called |-> FALSE, rows |-> << >>, top_k |-> 0, layer3_fails |-> FALSE,
     queried |-> << >>, layer1 |-> << >>, layer2 |-> << >>, layer3 |-> << >>,
     results |-> << >>, raised |-> FALSE]

\* the stream connections of the job
Subscribers == {1, 2}

\* a stream connection that has not subscribed yet
NoSubscriber == [state |-> "idle", queue |-> 0, received |-> << >>]

\* _sse_queues has no entry for the job, nothing was pushed, the main loop
\* runs; closed_at is the number of events pushed before the first
\* unsubscribe, -1 while there was none
NoBus ==
    [registry |-> 0, queues |-> << >>, scheduled |-> << >>, pushed |-> 0,
     sub |-> [s \in Subscribers |-> NoSubscriber], main_loop_running |-> TRUE,
     callback_errors |-> 0, push_raised |-> FALSE, closed_at |-> -1]

\* the resume_job requests that can be in progress at once
ResumeRequests == {1, 2}

\* the threads that can execute _run_async for the job at once
RunThreads == {1, 2}

\* no job row yet, no request and no invocation of _run_async in progress;
\* accepted counts the resume requests answered 202, scheduled the background
\* tasks added and not started
NoGuard ==
    [status |-> "none", resume_count |-> 0, accepted |-> 0, scheduled |-> 0,
     req |-> [q \in ResumeRequests |->
                 [pc |-> "idle", status |-> "none", resume_count |-> 0]],
     runs |-> [r \in RunThreads |-> "idle"]]

\* no call of DifficultyAgent.run yet
NoCalib ==
    [called |-> FALSE, question_type |-> "none", level |-> "none", K |-> 0,
     c |-> 0, retry_count |-> 0, max_retry |-> 0, out |-> NoDiff]

\* the components exercised on their own
aloneVars == <<disp, retr, bus, guard>>

Init ==
    /\ job = NoJob
    /\ perm = NoPermission
    /\ question_sets = 0
    /\ session = NoSession
    /\ rpc = "idle"
    /\ run = NoRun
    /\ tasks = << >>
    /\ pipe = << >>
    /\ semaphore = 0
    /\ quota_exhausted = FALSE
    /\ tracker = NewTracker(0)
    /\ job_events = << >>
    /\ result = NoResult
    /\ other = NoOther
    /\ quota_check = NoQuotaCheck
    /\ hist = NoHist
    /\ paper = NoPaper
    /\ regen = NoRegen
    /\ calib = NoCalib
    /\ disp = NoDisp
    /\ retr = NoRetr
    /\ bus = NoBus
    /\ guard = NoGuard

\* the state of the request handlers next to a run
reqVars == <<paper, regen, calib, aloneVars>>

runVars == <<question_sets, session, rpc, run, tasks, pipe, semaphore,
             quota_exhausted, tracker, job_events, result, hist>>

generateVars == <<tasks, pipe, semaphore, quota_exhausted, tracker, result>>

\* ------------------------------------------------------- request handlers
EnabledWithCap(p) == p.exists /\ p.is_enabled /\ ~p.quota_none

\* admin endpoint grant_exam_permission (monthly_quota NULL or a number)
Grant ==
    /\ rpc = "idle"
    /\ \E none \in BOOLEAN : \E quota \in CapChoices :
          /\ (none => quota = 0)
          /\ perm' = grant(perm, none, quota)
    /\ perm' # perm
    /\ quota_check' = [quota_check EXCEPT !.called = FALSE, !.cap_reached = FALSE]
    /\ UNCHANGED <<job, other, runVars, reqVars>>

\* admin endpoint revoke_exam_permission
Revoke ==
    /\ rpc = "idle"
    /\ perm.exists /\ perm.is_enabled
    /\ perm' = revoke(perm)
    /\ quota_check' = [quota_check EXCEPT !.called = FALSE]
    /\ UNCHANGED <<job, other, runVars, reqVars>>

\* endpoint generate_paper: quota check; when it passes the job row is created
\* pending and committed
Submit ==
    /\ ~job.exists
    /\ LET estimated == estimate_tokens(total_questions, SubmitSolveCount)
           ok == check_quota(perm, estimated)
       IN  /\ quota_check' = [quota_check EXCEPT !.called = TRUE,
                                                  !.estimated = estimated, !.ok = ok]
           /\ job' = IF ok THEN [NoJob EXCEPT !.exists = TRUE, !.status = "pending"]
                     ELSE job
    /\ UNCHANGED <<perm, other, runVars, reqVars>>

\* endpoint resume_job: the statuses it accepts
ResumeAccepts(status) == status \in {"failed"}

\* endpoint resume_job
Resume ==
    /\ job.exists
    /\ ResumeAccepts(job.status)
    /\ job.resume_count < MaxResume
    /\ job' = [job EXCEPT !.status = "resuming",
                          !.resume_count = @ + 1,
                          !.error_message = ""]
    /\ UNCHANGED <<perm, other, quota_check, runVars, reqVars>>

\* ------------------------------------------------------------ progress bus
DictRemove(f, k) == [x \in (DOMAIN f) \ {k} |-> f[x]]

\* make_progress_callback: what one event does to the tracker (pos = 0 stands
\* for an event without position_index)
callback(tr, event, pos) ==
    LET t1 == IF pos # 0
              THEN [tr EXCEPT !.current_actions =
                                 DictUpdate(@, [x \in {pos} |-> event])]
              ELSE tr
    IN  IF event = "question_approved"
        THEN [t1 EXCEPT !.completed = @ + 1,
                        !.current_actions = DictRemove(@, pos)]
        ELSE IF event = "question_skipped"
        THEN [t1 EXCEPT !.skipped = @ + 1,
                        !.current_actions = DictRemove(@, pos)]
        ELSE t1

\* _emit called for each event of the sequence, in order
RECURSIVE EmitAll(_, _, _)
EmitAll(tr, events, pos) ==
    IF events = << >> THEN tr
    ELSE EmitAll(callback(tr, Head(events), pos), Tail(events), pos)

\* ------------------------------------------------------------ orchestrator
\* a status test that lets a failed job through
run_accepts_failed(j) == j.exists /\ j.status \in {"pending", "resuming", "failed"}

\* _run_async: the job exists and its status lets the run proceed
RunAccepts(j) == j.exists /\ j.status \in {"pending", "resuming"}

\* _run_async from its start to the commit of status running, and on to the
\* call of generate; or its early return
RunStart ==
    \/ /\ rpc = "idle"
       /\ RunAccepts(job)
       /\ LET existing_questions == job.completed_questions
              already_done_positions == DOMAIN existing_questions
              remaining_questions == total_questions - Cardinality(already_done_positions)
              running == [job EXCEPT !.status = "running"]
          IN  /\ job' = running
              /\ session' = [NoSession EXCEPT !.job = running,
                                              !.question_sets = question_sets,
                                              !.paper = paper]
              /\ run' = [existing_questions |-> existing_questions,
                         already_done_positions |-> already_done_positions,
                         remaining_questions |-> remaining_questions,
                         estimated |-> estimate_tokens(remaining_questions, SolveCount),
                         max_retry |-> 0,
                         concurrency |-> 0,
                         solve_count |-> SolveCount,
                         perm_at_start |-> perm]
              /\ tracker' = NewTracker(remaining_questions)
       /\ quota_exhausted' = FALSE
       /\ job_events' = Append(job_events, "job_started")
       /\ rpc' = "running"
       /\ hist' = [outcome |-> "running", approved |-> {}, in_flight |-> {}]
       /\ UNCHANGED <<perm, question_sets, tasks, pipe, semaphore, result, other,
                      quota_check, reqVars>>
    \/ /\ ~RunAccepts(job)
       /\ hist' = IF rpc = "idle" THEN [hist EXCEPT !.outcome = "rejected"] ELSE hist
       /\ UNCHANGED <<job, perm, question_sets, session, rpc, run, tasks, pipe,
                      semaphore, quota_exhausted, tracker, job_events, result,
                      other, quota_check, reqVars>>

\* positions the pipelines of the run have approved
ApprovedPositions ==
    {tasks[i].position_index :
        i \in {k \in DOMAIN pipe : pipe[k].pc = "returned"
                                   /\ pipe[k].question # NoQuestion}}

\* the except branch of _run_async: status failed and the message are written
\* and the session (holding the rows pending) is committed; when that raises,
\* the session is rolled back
Fail(error, pending) ==
    /\ \E persisted \in BOOLEAN :
          /\ IF persisted
             THEN /\ job' = [pending.job EXCEPT !.status = "failed",
                                                !.error_message = error]
                  /\ perm' = IF pending.perm_loaded
                             THEN [perm EXCEPT !.token_used = pending.perm.token_used]
                             ELSE perm
                  /\ question_sets' = pending.question_sets
                  /\ paper' = pending.paper
             ELSE UNCHANGED <<job, perm, question_sets, paper>>
          /\ hist' = [outcome |-> IF persisted THEN "failed" ELSE "handler_failed",
                      approved |-> ApprovedPositions,
                      in_flight |-> hist.in_flight]
    /\ job_events' = Append(job_events, "job_failed")
    /\ rpc' = "idle"
    /\ session' = NoSession
    /\ run' = NoRun
    /\ tasks' = << >>
    /\ pipe' = << >>
    /\ semaphore' = 0
    /\ quota_exhausted' = FALSE
    /\ tracker' = NewTracker(0)
    /\ result' = NoResult
    /\ UNCHANGED <<other, quota_check, regen, calib, aloneVars>>

\* the awaited calls of _run_async after the job was marked running
RaisePoints == {"running", "generated", "saved", "status_set", "consumed"}

\* the call _run_async is waiting for raises
Raise ==
    /\ rpc \in RaisePoints
    /\ Fail("exception", session)

\* generate up to the creation of the pipelines: configuration, dispatch
Dispatch ==
    /\ rpc = "running"
    /\ \E max_retry \in 0..MaxRetry :
          run' = [run EXCEPT !.max_retry = max_retry, !.concurrency = Concurrency]
    /\ tasks' = DispatchAgent_dispatch(question_distribution,
                                       run.already_done_positions)
    /\ pipe' = [i \in 1..Len(tasks') |-> NewPipe]
    /\ semaphore' = Concurrency
    /\ rpc' = "pipelines"
    /\ UNCHANGED <<job, perm, question_sets, session, quota_exhausted, tracker,
                   job_events, result, other, quota_check, hist, reqVars>>

\* ------------------------------------------------------- position pipeline
\* a loop condition that allows one iteration more
loop_one_more(retry_count, max_retry) == retry_count <= max_retry + 1

\* _process_single_question: the condition of its while loop
LoopCondition(retry_count, max_retry) == retry_count <= max_retry

\* _process_single_question: a failed quality check is let through
ForcePass(retry_count, max_retry) == retry_count >= max_retry

\* a rejection that leaves the task's own counter alone
TaskFeedbackOnly(task, feedback) == [task EXCEPT !.retry_feedback = feedback]

\* the task after a round was rejected: feedback attached, retry_count raised
TaskRetried(task, feedback) ==
    [task EXCEPT !.retry_feedback = feedback, !.retry_count = @ + 1]

\* the end of an iteration that asked for a retry: feedback stored, both retry
\* counters raised, the event emitted, the slot released, the loop condition
\* evaluated again and, when it fails, the position given up
RetryOrSkip(i, feedback, events) ==
    LET pos == tasks[i].position_index
        retry_count == pipe[i].retry_count + 1
        again == LoopCondition(retry_count, run.max_retry)
    IN  /\ tasks' = [tasks EXCEPT ![i] = TaskRetried(@, feedback)]
        /\ pipe' = [pipe EXCEPT
                      ![i].retry_count = retry_count,
                      ![i].question = NoQuestion,
                      ![i].pc = IF again THEN "acquire" ELSE "returned",
                      ![i].warnings = IF again THEN @
                                      ELSE Append(@, Warning("max_retry", pos))]
        /\ tracker' = EmitAll(tracker,
                              IF again THEN events
                              ELSE Append(events, "question_skipped"),
                              pos)
        /\ semaphore' = semaphore + 1

\* a governor that never makes a pipeline wait
never_locked(value) == FALSE

\* asyncio.Semaphore: no slot is free, async with has to wait
locked(value) == value = 0

\* a pipeline that never looks at the flag
is_set_ignored(event) == FALSE

\* asyncio.Event.is_set of the quota flag
is_set(event) == event

\* async with semaphore, the quota flag test, the question_start event and the
\* call of question_agent.run
Acquire(i) ==
    /\ rpc = "pipelines"
    /\ pipe[i].pc = "acquire"
    /\ ~locked(semaphore)
    /\ IF is_set(quota_exhausted)
       THEN /\ pipe' = [pipe EXCEPT
                          ![i].pc = "returned",
                          ![i].warnings =
                              Append(@, Warning("quota", tasks[i].position_index))]
            /\ UNCHANGED <<semaphore, tracker>>
       ELSE /\ pipe' = [pipe EXCEPT ![i].pc = "generate", ![i].gen_calls = @ + 1]
            /\ semaphore' = semaphore - 1
            /\ tracker' = callback(tracker, "question_start", tasks[i].position_index)
    /\ UNCHANGED <<job, perm, question_sets, session, rpc, run, tasks,
                   quota_exhausted, job_events, result, other, quota_check, hist, reqVars>>

\* question_agent.run returns a candidate or raises; the candidate goes to
\* quality_check_agent.run
Generate(i) ==
    /\ rpc = "pipelines"
    /\ pipe[i].pc = "generate"
    /\ \E raised \in BOOLEAN :
          IF raised
          THEN RetryOrSkip(i, "generate_failed", <<"question_error">>)
          ELSE /\ pipe' = [pipe EXCEPT
                             ![i].pc = "quality_check",
                             ![i].question = QuestionAgent_run(tasks[i], pipe[i].retry_count)]
               /\ tracker' = callback(tracker, "quality_check", tasks[i].position_index)
               /\ UNCHANGED <<tasks, semaphore>>
    /\ UNCHANGED <<job, perm, question_sets, session, rpc, run,
                   quota_exhausted, job_events, result, other, quota_check, hist, reqVars>>

\* quality_check_agent.run passes, fails or raises; a pass (or a forced pass)
\* starts the K solve and grade calls
QualityCheck(i) ==
    /\ rpc = "pipelines"
    /\ pipe[i].pc = "quality_check"
    /\ \E outcome \in {"passed", "failed", "raised"} :
          CASE outcome = "passed" ->
                  /\ pipe' = [pipe EXCEPT ![i].pc = "solve_grade"]
                  /\ tracker' = callback(tracker, "solving", tasks[i].position_index)
                  /\ UNCHANGED <<tasks, semaphore>>
            [] outcome = "failed" ->
                  IF ForcePass(pipe[i].retry_count, run.max_retry)
                  THEN /\ pipe' = [pipe EXCEPT ![i].pc = "solve_grade",
                                                ![i].force_pass = TRUE]
                       /\ tracker' = EmitAll(tracker, <<"quality_check_failed", "solving">>,
                                             tasks[i].position_index)
                       /\ UNCHANGED <<tasks, semaphore>>
                  ELSE RetryOrSkip(i, "quality_check_failed", <<"quality_check_failed">>)
            [] outcome = "raised" ->
                  /\ pipe' = [pipe EXCEPT ![i].pc = "raised", ![i].question = NoQuestion]
                  /\ semaphore' = semaphore + 1
                  /\ UNCHANGED <<tasks, tracker>>
    /\ UNCHANGED <<job, perm, question_sets, session, rpc, run,
                   quota_exhausted, job_events, result, other, quota_check, hist, reqVars>>

\* the K solve and grade calls return (c of the K attempts marked correct),
\* then difficulty_agent.run and its decision; or one of the calls raises and
\* the exception leaves the pipeline
SolveGrade(i) ==
    /\ rpc = "pipelines"
    /\ pipe[i].pc = "solve_grade"
    /\ \/ /\ pipe' = [pipe EXCEPT ![i].pc = "raised", ![i].question = NoQuestion,
                                   ![i].force_pass = FALSE]
          /\ semaphore' = semaphore + 1
          /\ UNCHANGED <<tasks, tracker>>
       \/ \E c \in 0..run.solve_count :
          LET pos == tasks[i].position_index
              diff_result == DifficultyAgent_run(pipe[i].question,
                                                 GradeOutcomes(run.solve_count, c),
                                                 pipe[i].retry_count, run.max_retry)
          IN  IF diff_result.decision = "approve"
              THEN /\ pipe' = [pipe EXCEPT
                                 ![i].pc = "returned",
                                 ![i].force_pass = FALSE,
                                 ![i].diff_result = diff_result,
                                 ![i].warnings = IF diff_result.difficulty_warning
                                                 THEN Append(@, Warning("difficulty", pos))
                                                 ELSE @]
                   /\ tracker' = EmitAll(tracker,
                                         <<"difficulty_result", "question_approved">>, pos)
                   /\ semaphore' = semaphore + 1
                   /\ UNCHANGED tasks
              ELSE RetryOrSkip(i, diff_result.feedback,
                               <<"difficulty_result", "difficulty_retry">>)
    /\ UNCHANGED <<job, perm, question_sets, session, rpc, run,
                   quota_exhausted, job_events, result, other, quota_check, hist, reqVars>>

\* ------------------------------------------------- generate: after gather
\* the warnings of the pipelines that returned, nothing for one that raised
RECURSIVE ReturnedWarningsOnly(_, _, _)
ReturnedWarningsOnly(ts, ps, i) ==
    IF i > Len(ts) THEN << >>
    ELSE (IF ps[i].pc = "raised" THEN << >> ELSE ps[i].warnings)
         \o ReturnedWarningsOnly(ts, ps, i + 1)

\* all_warnings of the loop over zip(tasks, results)
RECURSIVE ResultWarnings(_, _, _)
ResultWarnings(ts, ps, i) ==
    IF i > Len(ts) THEN << >>
    ELSE (IF ps[i].pc = "raised"
          THEN << Warning("exception", ts[i].position_index) >>
          ELSE ps[i].warnings)
         \o ResultWarnings(ts, ps, i + 1)

\* indices of the tasks whose pipeline returned a question, in task order
RECURSIVE ApprovedTasks(_, _)
ApprovedTasks(ps, i) ==
    IF i > Len(ps) THEN << >>
    ELSE (IF ps[i].pc = "returned" /\ ps[i].question # NoQuestion
          THEN <<i>> ELSE << >>)
         \o ApprovedTasks(ps, i + 1)

\* new_q_by_pos: position -> question of the pipelines that returned one
new_q_by_pos(ts, ps) ==
    LET idx == ApprovedTasks(ps, 1)
        at(pos) == CHOOSE k \in 1..Len(idx) : ts[idx[k]].position_index = pos
    IN  [pos \in {ts[idx[k]].position_index : k \in 1..Len(idx)} |->
            ps[idx[at(pos)]].question]

\* approved_questions handed to the assembler: the approved questions in task
\* order, or on a resume the restored and the new questions sorted by position
approved_questions(existing_questions, ts, ps) ==
    LET idx == ApprovedTasks(ps, 1)
        new == new_q_by_pos(ts, ps)
    IN  IF existing_questions = EmptyDict
        THEN [k \in 1..Len(idx) |-> ps[idx[k]].question]
        ELSE LET restored == [pos \in (DOMAIN existing_questions) \ (DOMAIN new) |->
                                 DeserializeQuestion(pos, existing_questions[pos])]
                 merged == DictUpdate(restored, new)
                 order == SortedSeq(DOMAIN merged)
             IN  [k \in 1..Len(order) |-> merged[order[k]]]

\* a checkpoint made of this run's questions alone
completed_questions_new_only(existing_questions, ts, ps) ==
    LET new == new_q_by_pos(ts, ps)
    IN  [pos \in DOMAIN new |-> SerializeQuestion(new[pos])]

\* completed_questions returned by generate
completed_questions(existing_questions, ts, ps) ==
    LET new == new_q_by_pos(ts, ps)
    IN  DictUpdate(existing_questions,
                   [pos \in DOMAIN new |-> SerializeQuestion(new[pos])])

\* difficulty_results handed to the assembler
difficulty_results(ps) ==
    LET idx == ApprovedTasks(ps, 1)
    IN  [k \in 1..Len(idx) |-> ps[idx[k]].diff_result]

\* an assembly that gives up as soon as one position is missing
fewer_than_total(approved) == Len(approved) < total_questions

\* generate: if not approved_questions
NothingToAssemble(approved) == approved = << >>

\* gather has every result: the loop over the results, the merge with the
\* restored questions, the assembler; RuntimeError when nothing is approved
GenerateReturn ==
    /\ rpc = "pipelines"
    /\ \A i \in DOMAIN pipe : pipe[i].pc \in {"returned", "raised"}
    /\ LET approved == approved_questions(run.existing_questions, tasks, pipe)
           assemble_result == AssembleAgent_run(approved, difficulty_results(pipe))
       IN  IF NothingToAssemble(approved)
           THEN Fail("all_questions_failed", session)
           ELSE /\ result' = [warnings |-> ResultWarnings(tasks, pipe, 1)
                                           \o assemble_result.warnings,
                              completed_questions |->
                                  completed_questions(run.existing_questions, tasks, pipe),
                              questions |-> assemble_result.questions]
                /\ rpc' = "generated"
                /\ UNCHANGED <<job, perm, question_sets, session, run, tasks, pipe,
                               semaphore, quota_exhausted, tracker, job_events,
                               other, quota_check, hist, reqVars>>

\* ------------------------------------------- _run_async: after generate
\* the paper JSON written to the question-set file: one numbered entry per
\* assembled question
PaperContent(questions) ==
    [k \in 1..Len(questions) |->
        [number |-> questions[k].number,
         entry |-> SerializeQuestion(questions[k].question)]]

\* create_question_set: the row is flushed, then the paper file is written;
\* on return the job is linked to the new question set
CreateQuestionSet ==
    /\ rpc = "generated"
    /\ \E file_written \in BOOLEAN :
          IF file_written
          THEN /\ session' = [session EXCEPT
                                !.question_sets = @ + 1,
                                !.paper = PaperContent(result.questions),
                                !.job.question_set_id = session.question_sets + 1]
               /\ rpc' = "saved"
               /\ UNCHANGED <<job, perm, question_sets, run, generateVars,
                              job_events, other, quota_check, hist, reqVars>>
          ELSE Fail("exception", [session EXCEPT !.question_sets = @ + 1])

\* update_status(completed, completed_questions, warnings), flushed
UpdateStatusCompleted ==
    /\ rpc = "saved"
    /\ session' = [session EXCEPT
                     !.job.status = "completed",
                     !.job.completed_questions = result.completed_questions,
                     !.job.warnings = result.warnings]
    /\ rpc' = "status_set"
    /\ UNCHANGED <<job, perm, question_sets, run, generateVars, job_events,
                   other, quota_check, hist, reqVars>>

\* perm_service.consume_tokens(teacher_id, estimated): row read, debit flushed
ConsumeTokens ==
    /\ rpc = "status_set"
    /\ session' = [session EXCEPT !.perm = consume_tokens(perm, run.estimated),
                                  !.perm_loaded = perm.exists]
    /\ rpc' = "consumed"
    /\ UNCHANGED <<job, perm, question_sets, run, generateVars, job_events,
                   other, quota_check, hist, reqVars>>

\* job_service.add_token_usage(job_id, estimated), flushed
AddTokenUsage ==
    /\ rpc = "consumed"
    /\ session' = [session EXCEPT !.job.token_consumed = @ + run.estimated]
    /\ rpc' = "usage_added"
    /\ UNCHANGED <<job, perm, question_sets, run, generateVars, job_events,
                   other, quota_check, hist, reqVars>>

\* session.commit() and the job_completed event; the run is over
Commit ==
    /\ rpc = "usage_added"
    /\ job' = session.job
    /\ perm' = IF session.perm_loaded
               THEN [perm EXCEPT !.token_used = session.perm.token_used]
               ELSE perm
    /\ question_sets' = session.question_sets
    /\ paper' = session.paper
    /\ job_events' = Append(job_events, "job_completed")
    /\ hist' = [outcome |-> "completed", approved |-> ApprovedPositions,
                in_flight |-> hist.in_flight]
    /\ rpc' = "idle"
    /\ session' = NoSession
    /\ run' = NoRun
    /\ tasks' = << >>
    /\ pipe' = << >>
    /\ semaphore' = 0
    /\ quota_exhausted' = FALSE
    /\ tracker' = NewTracker(0)
    /\ result' = NoResult
    /\ UNCHANGED <<other, quota_check, regen, calib, aloneVars>>

\* ------------------------------------ a run of another job of the same owner
\* its consume_tokens: the row is read and the debit flushed in its session
OtherConsumeTokens ==
    /\ other.pc = "idle"
    /\ other.debits < MaxOther
    /\ perm.exists
    /\ other' = [pc |-> "flushed",
                 token_used |-> consume_tokens(perm, OtherEstimate).token_used,
                 debits |-> other.debits + 1]
    /\ UNCHANGED <<job, perm, quota_check, runVars, reqVars>>

\* its session.commit()
OtherCommit ==
    /\ other.pc = "flushed"
    /\ perm' = [perm EXCEPT !.token_used = other.token_used]
    /\ other' = [other EXCEPT !.pc = "idle", !.token_used = 0]
    /\ UNCHANGED <<job, quota_check, runVars, reqVars>>

\* ------------------------------------------- endpoint regenerate_question
\* the retry budget of a single-question regeneration
regen_max_retry == 2

\* question type of the slot at position_index, "none" outside 1..total
SlotType(distribution, position_index) ==
    LET slots == ExpandDistribution(distribution)
    IN  IF position_index \in 1..Len(slots)
        THEN slots[position_index].question_type
        ELSE "none"

\* regenerate_question: the checks made before any agent is called
RegenerateAccepts(j, p, position_index) ==
    /\ j.exists
    /\ j.status = "completed"
    /\ check_quota(p, estimate_tokens(1, 1))
    /\ SlotType(question_distribution, position_index) # "none"

\* the QuestionTask regenerate_question builds for the position
RegenTask(position_index) ==
    [task_id |-> [kind |-> "regen", pos |-> position_index],
     question_type |-> SlotType(question_distribution, position_index),
     position_index |-> position_index,
     target_difficulty_level |-> "medium",
     retry_feedback |-> "none",
     retry_count |-> 0]

\* the candidate of the attempt; candidates of a regeneration are told from
\* those of a run by their text
RegenCandidate(position_index, attempt) ==
    QuestionAgent_run(RegenTask(position_index), RegenTextBase + attempt)

\* the paper JSON with the entry numbered position_index replaced
ReplaceNumbered(content, position_index, new_q_dict) ==
    LET hits == {k \in 1..Len(content) : content[k].number = position_index}
        first == IF hits = {} THEN 0 ELSE CHOOSE k \in hits : \A h \in hits : k <= h
    IN  [k \in 1..Len(content) |->
            IF k = first THEN [number |-> position_index, entry |-> new_q_dict]
            ELSE content[k]]

\* regenerate_question up to its first agent call: the request is refused
\* (nothing is written) or the loop over the attempts starts
RegenerateStart ==
    /\ regen.pc = "idle"
    /\ regen.requests < MaxRegen
    /\ rpc = "idle"
    /\ \E position_index \in 0..(total_questions + 1) :
          IF RegenerateAccepts(job, perm, position_index)
          THEN regen' = [regen EXCEPT !.pc = "round",
                                      !.position_index = position_index,
                                      !.attempt = 0,
                                      !.requests = @ + 1,
                                      !.outcome = "running"]
          ELSE regen' = regen
    /\ UNCHANGED <<job, perm, other, quota_check, runVars, paper, calib, aloneVars>>

\* one attempt: q_agent.run and qc_agent.run; a call that raises ends the
\* request with nothing written; a candidate that passes, or the last one,
\* is stored in the checkpoint map and in the paper file, and the debit is
\* flushed
RegenerateRound ==
    /\ regen.pc = "round"
    /\ \E outcome \in {"raised", "passed", "failed"} :
          LET final_question == RegenCandidate(regen.position_index, regen.attempt)
              new_q_dict == SerializeQuestion(final_question)
          IN  IF outcome = "raised"
              THEN /\ regen' = [NoRegen EXCEPT !.requests = regen.requests,
                                               !.outcome = "error"]
                   /\ paper' = paper
              ELSE IF outcome = "failed" /\ regen.attempt < regen_max_retry
              THEN /\ regen' = [regen EXCEPT !.attempt = @ + 1]
                   /\ paper' = paper
              ELSE /\ regen' =
                         [regen EXCEPT
                            !.pc = "flushed",
                            !.question = final_question,
                            !.completed_questions =
                                DictUpdate(job.completed_questions,
                                           [x \in {regen.position_index} |-> new_q_dict]),
                            !.token_used =
                                consume_tokens(perm, estimate_tokens(1, 1)).token_used]
                   /\ paper' = IF job.question_set_id # 0
                               THEN ReplaceNumbered(paper, regen.position_index,
                                                    new_q_dict)
                               ELSE paper
    /\ UNCHANGED <<job, perm, other, quota_check, runVars, calib, aloneVars>>

\* session.commit() of regenerate_question and its response
RegenerateCommit ==
    /\ regen.pc = "flushed"
    /\ job' = [job EXCEPT !.completed_questions = regen.completed_questions]
    /\ perm' = IF perm.exists THEN [perm EXCEPT !.token_used = regen.token_used]
               ELSE perm
    /\ regen' = [NoRegen EXCEPT !.requests = regen.requests, !.outcome = "done"]
    /\ UNCHANGED <<other, quota_check, runVars, paper, calib, aloneVars>>

\* ------------------------------------------------------------ specification
Next ==
    \/ Grant
    \/ Revoke
    \/ Submit
    \/ Resume
    \/ RunStart
    \/ Dispatch
    \/ \E i \in DOMAIN pipe : Acquire(i)
    \/ \E i \in DOMAIN pipe : Generate(i)
    \/ \E i \in DOMAIN pipe : QualityCheck(i)
    \/ \E i \in DOMAIN pipe : SolveGrade(i)
    \/ GenerateReturn
    \/ CreateQuestionSet
    \/ UpdateStatusCompleted
    \/ ConsumeTokens
    \/ AddTokenUsage
    \/ Commit
    \/ Raise
    \/ OtherConsumeTokens
    \/ OtherCommit
    \/ RegenerateStart
    \/ RegenerateRound
    \/ RegenerateCommit

Spec == Init /\ [][Next]_vars

\* ------------------------------------------------ the generator on its own
\* a requirement with count questions of one type
GeneratorDistribution(count) ==
    << [question_type |-> "single_choice", count |-> count] >>

\* the first run of a job with that requirement, at the point where generate
\* has dispatched its tasks and created the pipelines; the owner's grant has
\* no cap; max_retry and concurrency are those of the deployment
GeneratorStartOf(count, concurrencies) ==
    /\ job = [NoJob EXCEPT !.exists = TRUE, !.status = "running"]
    /\ perm = grant(NoPermission, TRUE, 0)
    /\ question_sets = 0
    /\ session = [NoSession EXCEPT !.job = job]
    /\ rpc = "pipelines"
    /\ \E max_retry \in 0..MaxRetry : \E concurrency \in concurrencies :
          /\ run = [existing_questions |-> EmptyDict,
                    already_done_positions |-> {},
                    remaining_questions |-> count,
                    estimated |-> estimate_tokens(count, GenSolveCount),
                    max_retry |-> max_retry,
                    concurrency |-> concurrency,
                    solve_count |-> GenSolveCount,
                    perm_at_start |-> perm]
          /\ semaphore = concurrency
    /\ tasks = DispatchAgent_dispatch(GeneratorDistribution(count), {})
    /\ pipe = [i \in 1..Len(tasks) |-> NewPipe]
    /\ quota_exhausted = FALSE
    /\ tracker = NewTracker(count)
    /\ job_events = <<"job_started">>
    /\ result = NoResult
    /\ other = NoOther
    /\ quota_check = [called |-> TRUE,
                      estimated |-> estimate_tokens(count, SubmitSolveCount),
                      ok |-> TRUE, cap_reached |-> FALSE]
    /\ hist = [outcome |-> "running", approved |-> {}, in_flight |-> {}]
    /\ paper = NoPaper
    /\ regen = NoRegen
    /\ calib = NoCalib
    /\ disp = NoDisp
    /\ retr = NoRetr
    /\ bus = NoBus
    /\ guard = NoGuard

\* the deployments with at least one slot
GeneratorStart(count) == GeneratorStartOf(count, 1..GenConcurrency)

InitGenerator == GeneratorStart(GenPos)

NextGenerator ==
    \/ \E i \in DOMAIN pipe : Acquire(i)
    \/ \E i \in DOMAIN pipe : Generate(i)
    \/ \E i \in DOMAIN pipe : QualityCheck(i)
    \/ \E i \in DOMAIN pipe : SolveGrade(i)
    \/ GenerateReturn

SpecGenerator == InitGenerator /\ [][NextGenerator]_vars

\* ------------------------------- the generator with a caller that cancels
\* the holder of the asyncio.Event handed to generate sets it while the
\* pipelines run; hist.in_flight keeps the positions that were inside a round
\* at that moment
SetQuotaExhausted ==
    /\ rpc = "pipelines"
    /\ ~quota_exhausted
    /\ quota_exhausted' = TRUE
    /\ hist' = [hist EXCEPT !.in_flight =
                   {tasks[i].position_index :
                       i \in {k \in DOMAIN pipe :
                                pipe[k].pc \in {"generate", "quality_check",
                                                "solve_grade"}}}]
    /\ UNCHANGED <<job, perm, question_sets, session, rpc, run, tasks, pipe,
                   semaphore, tracker, job_events, result, other, quota_check,
                   reqVars>>

NextCancel ==
    \/ NextGenerator
    \/ SetQuotaExhausted

InitCancel == GeneratorStart(CancelPos)

SpecCancel == InitCancel /\ [][NextCancel]_vars

\* --------------------- the generator under every accepted concurrency value
\* number of positions and largest exam_agent_concurrency of these runs
GovPos == 2
GovConcurrency == 2

\* update_configs accepts every integer that is not negative
InitGovernor == GeneratorStartOf(GovPos, 0..GovConcurrency)

\* the event loop runs every coroutine that can go on, and every agent call
\* returns or raises
SpecGovernor ==
    InitGovernor /\ [][NextGenerator]_vars /\ WF_vars(NextGenerator)

\* ----------------------------------------------- the calibrator on its own
\* numbers of grade outcomes tried: the small ones, and those that put c/K on
\* the bounds 0.10, 0.40 and 0.65
CalibKs == (1..CalibK) \cup {10, 20}

CalibLevels == {"easy", "medium", "hard"}

\* DifficultyAgent.run is called for a question of an exact-key type with K
\* grade outcomes of which c are correct
Calibrate ==
    /\ ~calib.called
    /\ \E question_type \in ObjectiveTypes, level \in CalibLevels, K \in CalibKs,
          retry_count \in 0..CalibRetry, max_retry \in 0..CalibRetry :
          \E c \in 0..K :
             calib' = [called |-> TRUE, question_type |-> question_type,
                       level |-> level, K |-> K, c |-> c,
                       retry_count |-> retry_count, max_retry |-> max_retry,
                       out |-> DifficultyAgent_run(
                                   [NoQuestion EXCEPT
                                      !.task_id = [kind |-> "task", pos |-> 1],
                                      !.question_type = question_type,
                                      !.target_difficulty_level = level],
                                   GradeOutcomes(K, c), retry_count, max_retry)]
    /\ UNCHANGED <<job, perm, other, quota_check, runVars, paper, regen,
                   aloneVars>>

SpecDifficulty == Init /\ [][Calibrate]_vars

\* ---------------------------------------------- the task builder on its own
\* largest count of one entry of the distribution
DispCount == 3

\* the question types of the entries
DispTypes == {"single_choice", "fill_blank"}

DispEntries == [question_type : DispTypes, count : 0..DispCount]

\* distributions of one or two entries
DispDistributions ==
    {<<a>> : a \in DispEntries} \cup {<<a, b>> : a \in DispEntries, b \in DispEntries}

\* easy/medium/hard shares in tenths: the defaults, no hard share, all easy,
\* all hard, and a hard-heavy one; for each of them the float comparisons of
\* dispatch agree with the exact ones for every count used here
DispShares ==
    { DifficultyDistribution,
      [easy |-> 5, medium |-> 5, hard |-> 0],
      [easy |-> 10, medium |-> 0, hard |-> 0],
      [easy |-> 0, medium |-> 0, hard |-> 10],
      [easy |-> 2, medium |-> 3, hard |-> 5] }

\* DispatchAgent.dispatch is called for a requirement, once as a first run
\* and once with a set of positions already done
DispatchCall ==
    /\ ~disp.called
    /\ \E distribution \in DispDistributions, shares \in DispShares :
          \E done \in SUBSET (1..SumCounts(distribution)) :
             LET requirement == [question_distribution |-> distribution,
                                 difficulty_distribution |-> shares]
             IN  disp' = [called |-> TRUE, requirement |-> requirement,
                          already_done_positions |-> done,
                          first |-> dispatch(requirement, {}),
                          tasks |-> dispatch(requirement, done)]
    /\ UNCHANGED <<job, perm, other, quota_check, runVars, paper, regen, calib,
                   retr, bus, guard>>

SpecDispatch == Init /\ [][DispatchCall]_vars

\* ------------------------------------------------ the retriever on its own
\* number of ExamQuestion rows in the table
RetrRows == 3
\* largest top_k asked for
RetrK == 3
\* number of different years of the rows
RetrYears == 2
\* number of different cosine distances of the rows that carry an embedding
RetrDist == 2

\* how far a row matches the query: subject, type, position and region
\* ("exact"), all but the region ("position"), subject and type ("type"),
\* or not even these ("none")
RetrMatches == {"exact", "position", "type", "none"}

\* the rows of the table by id; distance 0 stands for a row without embedding
RetrTables ==
    [1..RetrRows -> [match : RetrMatches, year : 1..RetrYears,
                     distance : 0..RetrDist]]

Min(a, b) == IF a <= b THEN a ELSE b

SeqRange(seq) == {seq[i] : i \in DOMAIN seq}

\* SELECT ... ORDER BY key DESC LIMIT limit over the rows with ids in M, key
\* being the sort value by id: every list of min(limit, |M|) different ids
\* that is ordered by the key and leaves out no row with a larger key than
\* one it holds; rows with equal keys come in any order
Select(M, key, limit) ==
    LET n == Min(Max(limit, 0), Cardinality(M))
    IN  {sel \in [1..n -> M] :
            /\ \A i, j \in 1..n :
                  i < j => sel[i] # sel[j] /\ key[sel[i]] >= key[sel[j]]
            /\ \A x \in M \ SeqRange(sel) : \A i \in 1..n : key[x] <= key[sel[i]]}

\* ExamQuestion.year of every row
Years(rows) == [id \in DOMAIN rows |-> rows[id].year]

\* _layer1_exact
layer1_exact(rows, limit) ==
    Select({id \in DOMAIN rows : rows[id].match = "exact"}, Years(rows), limit)

\* _layer2_cross_region without its notin_ condition
layer2_keeps_excluded(rows, limit, excluded_ids) ==
    Select({id \in DOMAIN rows : rows[id].match \in {"exact", "position"}},
           Years(rows), limit)

\* _layer2_cross_region: the region is not compared, the ids already returned
\* are excluded
layer2_cross_region(rows, limit, excluded_ids) ==
    Select({id \in DOMAIN rows :
               /\ rows[id].match \in {"exact", "position"}
               /\ id \notin excluded_ids},
           Years(rows), limit)

\* the query of _layer3_semantic: subject and type are compared, the row has
\* an embedding, the nearest come first
layer3_semantic(rows, limit, excluded_ids) ==
    Select({id \in DOMAIN rows :
               /\ rows[id].match \in {"exact", "position", "type"}
               /\ rows[id].distance # 0
               /\ id \notin excluded_ids},
           [id \in DOMAIN rows |-> 0 - rows[id].distance], limit)

\* results[:top_k]
Truncate(seq, top_k) == SubSeq(seq, 1, Min(Len(seq), top_k))

\* ExamRetriever.get_same_position_examples over a table; the embedding call
\* or the query of layer 3 may raise, which _layer3_semantic turns into []
GetSamePositionExamples ==
    /\ ~retr.called
    /\ \E rows \in RetrTables, top_k \in 0..RetrK, layer3_fails \in BOOLEAN :
          \E l1 \in layer1_exact(rows, top_k) :
             LET call == [NoRetr EXCEPT !.called = TRUE, !.rows = rows,
                                        !.top_k = top_k,
                                        !.layer3_fails = layer3_fails,
                                        !.layer1 = l1]
             IN  IF Len(l1) >= top_k
                 THEN retr' = [call EXCEPT !.queried = <<1>>,
                                           !.results = Truncate(l1, top_k)]
                 ELSE \E l2 \in layer2_cross_region(rows, top_k - Len(l1),
                                                    SeqRange(l1)) :
                         LET r2 == l1 \o l2
                         IN  IF Len(r2) >= top_k
                             THEN retr' = [call EXCEPT
                                              !.queried = <<1, 2>>,
                                              !.layer2 = l2,
                                              !.results = Truncate(r2, top_k)]
                             ELSE \E l3 \in IF layer3_fails THEN {<< >>}
                                            ELSE layer3_semantic(
                                                     rows, top_k - Len(r2),
                                                     SeqRange(r2)) :
                                     retr' = [call EXCEPT
                                                 !.queried = <<1, 2, 3>>,
                                                 !.layer2 = l2,
                                                 !.layer3 = l3,
                                                 !.results =
                                                     Truncate(r2 \o l3, top_k)]
    /\ UNCHANGED <<job, perm, other, quota_check, runVars, paper, regen, calib,
                   disp, bus, guard>>

SpecRetriever == Init /\ [][GetSamePositionExamples]_vars

\* --------------------------------------------- the progress bus on its own
\* number of events the run pushes; the last one is job_completed or job_failed
BusEvents == 4
\* maxsize of the queue of a job, 500 in the code
QueueMaxsize == 2

\* the job-lifecycle end event
JobEnd == BusEvents

\* queue.put_nowait(msg): QueueFull when the queue holds maxsize items
put_nowait_unbounded(queue, msg) == [full |-> FALSE, queue |-> Append(queue, msg)]

put_nowait(queue, msg) ==
    IF Len(queue) >= QueueMaxsize THEN [full |-> TRUE, queue |-> queue]
    ELSE [full |-> FALSE, queue |-> Append(queue, msg)]

\* the direct put is inside try/except asyncio.QueueFull: nothing is raised
\* to the caller of _push_to_queue
direct_put_raises(full) == FALSE

\* subscribe_job_progress: the queue registered for the job, created when the
\* job has none; called by stream_job_progress for a job not yet ended
Subscribe(s) ==
    /\ bus.main_loop_running
    /\ bus.sub[s].state = "idle"
    /\ bus.pushed < BusEvents
    /\ LET fresh == bus.registry = 0
           queue == IF fresh THEN Len(bus.queues) + 1 ELSE bus.registry
       IN  bus' = [bus EXCEPT
                      !.registry = queue,
                      !.queues = IF fresh THEN Append(@, << >>) ELSE @,
                      !.sub[s] = [state |-> "streaming", queue |-> queue,
                                  received |-> << >>]]
    /\ UNCHANGED <<job, perm, other, quota_check, runVars, paper, regen, calib,
                   disp, retr, guard>>

\* unsubscribe_job_progress: _sse_queues.pop(job_id, None)
unsubscribe_job_progress(b) ==
    [b EXCEPT !.registry = 0,
              !.closed_at = IF @ = -1 THEN b.pushed ELSE @]

\* event_stream takes the next message of its queue and yields it; after
\* job_completed or job_failed it leaves the loop and unsubscribes
Deliver(s) ==
    /\ bus.main_loop_running
    /\ bus.sub[s].state = "streaming"
    /\ bus.queues[bus.sub[s].queue] # << >>
    /\ LET queue == bus.sub[s].queue
           msg == Head(bus.queues[queue])
           got == [bus EXCEPT !.queues[queue] = Tail(@),
                              !.sub[s].received = Append(@, msg)]
       IN  bus' = IF msg = JobEnd
                  THEN [unsubscribe_job_progress(got) EXCEPT
                           !.sub[s].state = "ended"]
                  ELSE got
    /\ UNCHANGED <<job, perm, other, quota_check, runVars, paper, regen, calib,
                   disp, retr, guard>>

\* the client closes its stream: the generator is closed and its finally
\* block unsubscribes
Disconnect(s) ==
    /\ bus.main_loop_running
    /\ bus.sub[s].state = "streaming"
    /\ bus' = [unsubscribe_job_progress(bus) EXCEPT !.sub[s].state = "closed"]
    /\ UNCHANGED <<job, perm, other, quota_check, runVars, paper, regen, calib,
                   disp, retr, guard>>

\* _push_to_queue, called on the thread of the run: nothing without a queue
\* for the job; with the main loop running the put is scheduled on it;
\* otherwise the put is made directly and QueueFull is caught
Push ==
    /\ bus.pushed < BusEvents
    /\ LET msg == bus.pushed + 1
           queue == bus.registry
           counted == [bus EXCEPT !.pushed = msg]
       IN  bus' = IF queue = 0 THEN counted
                  ELSE IF bus.main_loop_running
                  THEN [counted EXCEPT
                           !.scheduled = Append(@, [queue |-> queue, msg |-> msg])]
                  ELSE LET put == put_nowait(bus.queues[queue], msg)
                       IN  [counted EXCEPT
                              !.queues[queue] = put.queue,
                              !.push_raised = direct_put_raises(put.full)]
    /\ UNCHANGED <<job, perm, other, quota_check, runVars, paper, regen, calib,
                   disp, retr, guard>>

\* the main loop runs the oldest callback scheduled by call_soon_threadsafe;
\* a QueueFull raised by it goes to the exception handler of the loop
RunCallback ==
    /\ bus.main_loop_running
    /\ bus.scheduled # << >>
    /\ LET call == Head(bus.scheduled)
           put == put_nowait(bus.queues[call.queue], call.msg)
       IN  bus' = [bus EXCEPT !.scheduled = Tail(@),
                              !.queues[call.queue] = put.queue,
                              !.callback_errors = IF put.full THEN 1 ELSE @]
    /\ UNCHANGED <<job, perm, other, quota_check, runVars, paper, regen, calib,
                   disp, retr, guard>>

\* the application shuts down while the thread of the run goes on
StopMainLoop ==
    /\ bus.main_loop_running
    /\ bus.pushed < BusEvents
    /\ bus' = [bus EXCEPT !.main_loop_running = FALSE]
    /\ UNCHANGED <<job, perm, other, quota_check, runVars, paper, regen, calib,
                   disp, retr, guard>>

NextBus ==
    \/ \E s \in Subscribers : Subscribe(s)
    \/ \E s \in Subscribers : Deliver(s)
    \/ \E s \in Subscribers : Disconnect(s)
    \/ Push
    \/ RunCallback
    \/ StopMainLoop

SpecBus == Init /\ [][NextBus]_vars

\* ------------------------- the status guard under concurrent requests
\* number of resume requests that are accepted at most
GuardResumes == 3

\* the statuses from which _run_async goes on
RunAdmits(status) == status \in {"pending", "resuming"}

\* generate_paper: create_job with status pending, commit, add the task
GuardSubmit ==
    /\ guard.status = "none"
    /\ guard' = [guard EXCEPT !.status = "pending", !.scheduled = @ + 1]
    /\ UNCHANGED <<job, perm, other, quota_check, runVars, paper, regen, calib,
                   disp, retr, bus>>

\* resume_job up to its status test: get_job in the session of the request;
\* any status but failed is answered 400
ResumeLoad(q) ==
    /\ guard.status = "failed"
    /\ guard.req[q].pc = "idle"
    /\ guard.accepted
          + Cardinality({o \in ResumeRequests : guard.req[o].pc = "loaded"})
          < GuardResumes
    /\ guard' = [guard EXCEPT
                    !.req[q] = [pc |-> "loaded", status |-> guard.status,
                                resume_count |-> guard.resume_count]]
    /\ UNCHANGED <<job, perm, other, quota_check, runVars, paper, regen, calib,
                   disp, retr, bus>>

\* resume_job from the assignments on: status resuming and resume_count + 1
\* on the object as loaded, commit, add the task
ResumeCommit(q) ==
    /\ guard.req[q].pc = "loaded"
    /\ guard' = [guard EXCEPT
                    !.status = "resuming",
                    !.resume_count = guard.req[q].resume_count + 1,
                    !.accepted = @ + 1,
                    !.scheduled = @ + 1,
                    !.req[q].pc = "idle"]
    /\ UNCHANGED <<job, perm, other, quota_check, runVars, paper, regen, calib,
                   disp, retr, bus>>

\* _run_async up to its status test: a scheduled task starts on a thread,
\* loads the job and returns unless the status is pending or resuming
RunLoad(r) ==
    /\ guard.scheduled > 0
    /\ guard.runs[r] = "idle"
    /\ guard' = [guard EXCEPT
                    !.scheduled = @ - 1,
                    !.runs[r] = IF RunAdmits(guard.status) THEN "admitted"
                                ELSE "idle"]
    /\ UNCHANGED <<job, perm, other, quota_check, runVars, paper, regen, calib,
                   disp, retr, bus>>

\* update_status(running) and commit
RunMark(r) ==
    /\ guard.runs[r] = "admitted"
    /\ guard' = [guard EXCEPT !.status = "running", !.runs[r] = "generating"]
    /\ UNCHANGED <<job, perm, other, quota_check, runVars, paper, regen, calib,
                   disp, retr, bus>>

\* the run ends: update_status(completed) and commit, or the except branch,
\* whose update_status(failed) is committed or rolled back
RunEnd(r) ==
    /\ guard.runs[r] = "generating"
    /\ \E status \in {"completed", "failed", guard.status} :
          guard' = [guard EXCEPT !.status = status, !.runs[r] = "idle"]
    /\ UNCHANGED <<job, perm, other, quota_check, runVars, paper, regen, calib,
                   disp, retr, bus>>

NextGuard ==
    \/ GuardSubmit
    \/ \E q \in ResumeRequests : ResumeLoad(q)
    \/ \E q \in ResumeRequests : ResumeCommit(q)
    \/ \E r \in RunThreads : RunLoad(r)
    \/ \E r \in RunThreads : RunMark(r)
    \/ \E r \in RunThreads : RunEnd(r)

SpecGuard == Init /\ [][NextGuard]_vars

\* ------------------------------------------- the quota service on its own
\* estimates and debits the calls are made with: none, one regenerated
\* question, a whole paper, and what a whole-paper cap leaves after the first
Estimates ==
    {0, estimate_tokens(1, 1),
     estimate_tokens(total_questions, SubmitSolveCount) - estimate_tokens(1, 1),
     estimate_tokens(total_questions, SubmitSolveCount)}

\* the debits stop once the used counter has passed this value
MaxUsed == MaxDebits * estimate_tokens(total_questions, SubmitSolveCount)

\* a call of check_quota(owner, estimate)
CheckQuota ==
    /\ \E estimated \in Estimates :
          quota_check' = [quota_check EXCEPT !.called = TRUE,
                                             !.estimated = estimated,
                                             !.ok = check_quota(perm, estimated)]
    /\ UNCHANGED <<job, perm, other, runVars, reqVars>>

\* a call of consume_tokens(owner, tokens), committed
ConsumeTokensCall ==
    /\ perm.token_used < MaxUsed
    /\ \E tokens \in Estimates :
          /\ perm' = consume_tokens(perm, tokens)
          /\ quota_check' =
                [quota_check EXCEPT
                    !.called = FALSE,
                    !.cap_reached = @ \/ (/\ EnabledWithCap(perm')
                                          /\ perm'.token_used >= perm'.monthly_quota)]
    /\ UNCHANGED <<job, other, runVars, reqVars>>

NextQuota ==
    \/ Grant
    \/ Revoke
    \/ CheckQuota
    \/ ConsumeTokensCall

SpecQuota == Init /\ [][NextQuota]_vars

\* ---------------------------------------------------------------- properties
\* position index of the task (or of the restored checkpoint entry) a question
\* comes from
PositionOf(q) == q.task_id.pos

Terminal(p) == p.pc \in {"returned", "raised"}

Approved(p) ==
    /\ p.pc = "returned"
    /\ p.question # NoQuestion
    /\ p.diff_result.decision = "approve"

Skipped(p) ==
    /\ p.question = NoQuestion
    /\ p.diff_result = NoDiff
    /\ \/ p.pc = "raised"
       \/ /\ p.pc = "returned"
          /\ p.warnings # << >>
          /\ p.warnings[Len(p.warnings)].kind \in {"max_retry", "quota"}

PastGenerate == {"generated", "saved", "status_set", "consumed", "usage_added"}

\* the run ends in this step with the except branch taken
RunFails == rpc # "idle" /\ rpc' = "idle" /\ hist'.outcome # "completed"

\* the run ends in this step with its commit
RunCompletes == rpc = "usage_added" /\ rpc' = "idle" /\ hist'.outcome = "completed"

\* C1: in every run that reaches assembly the assembled list holds the
\* positions 1..total_questions, each once and in increasing order, and the
\* number the assembler gives a question is the position index of its task
C1_AssembledPositions ==
    rpc \in PastGenerate =>
        /\ [k \in 1..Len(result.questions) |-> PositionOf(result.questions[k].question)]
              = [k \in 1..total_questions |-> k]
        /\ \A k \in 1..Len(result.questions) :
              result.questions[k].number = PositionOf(result.questions[k].question)

\* a run reached assembly with a position missing, and a question carries a
\* number that is not its position
C1_Witness ==
    /\ rpc = "generated"
    /\ run.existing_questions = EmptyDict
    /\ Len(result.questions) < total_questions
    /\ \E k \in 1..Len(result.questions) :
          result.questions[k].number # PositionOf(result.questions[k].question)

C3_FailedRunKeepsApproved ==
    (job.exists /\ job.status \in {"failed", "resuming"}) =>
        hist.approved \subseteq DOMAIN job.completed_questions

\* a failed run had approved a position that the stored checkpoint lacks
C3_Witness ==
    /\ job.status = "failed"
    /\ hist.outcome = "failed"
    /\ hist.approved # {}
    /\ job.completed_questions = EmptyDict

\* C4: for every max_retry and every outcome of the agents a pipeline makes at
\* most max_retry + 1 generate calls, ends approved or skipped (never both), is
\* never in a further iteration once its retry counter has passed max_retry,
\* does not start another iteration from one entered with the counter at
\* max_retry, and while it has not ended some pipeline of the run can step
C4_PipelineTerminates ==
    /\ [](rpc = "pipelines" =>
            /\ \A i \in DOMAIN pipe :
                  /\ pipe[i].gen_calls <= run.max_retry + 1
                  /\ pipe[i].gen_calls <= pipe[i].retry_count + 1
                  /\ pipe[i].retry_count <= run.max_retry + 1
                  /\ ~Terminal(pipe[i]) => pipe[i].retry_count <= run.max_retry
                  /\ Terminal(pipe[i]) => (Approved(pipe[i]) /= Skipped(pipe[i]))
            /\ (\E i \in DOMAIN pipe : ~Terminal(pipe[i])) =>
                  \E i \in DOMAIN pipe :
                     \/ pipe[i].pc \in {"generate", "quality_check", "solve_grade"}
                     \/ pipe[i].pc = "acquire" /\ semaphore > 0)
    /\ [][\A i \in (DOMAIN pipe) \cap (DOMAIN pipe') :
             (/\ pipe[i].retry_count >= run.max_retry
              /\ pipe[i].pc \in {"generate", "quality_check", "solve_grade"})
             => pipe'[i].pc # "acquire"]_vars

\* at max_retry = MaxRetry a pipeline used all its generate calls and was given
\* up, and another one was approved outside its range on its last iteration
C4_Witness ==
    /\ rpc = "pipelines"
    /\ run.max_retry = MaxRetry
    /\ \E i \in DOMAIN pipe :
          /\ Skipped(pipe[i])
          /\ pipe[i].pc = "returned"
          /\ pipe[i].gen_calls = MaxRetry + 1
    /\ \E i \in DOMAIN pipe :
          /\ Approved(pipe[i])
          /\ pipe[i].gen_calls = MaxRetry + 1
          /\ pipe[i].diff_result.difficulty_warning

\* C5: when the except branch ends a run, the job is failed with the message
\* stored, and the checkpoint, warnings, question-set link and token counter of
\* the job, the owner's ledger and the question sets are as last committed
C5_FailureKeepsCommitted ==
    [][RunFails =>
          /\ job'.status = "failed"
          /\ job'.error_message # ""
          /\ job' = [job EXCEPT !.status = "failed",
                                !.error_message = job'.error_message]
          /\ perm' = perm
          /\ question_sets' = question_sets]_vars

\* a failed job carries the checkpoint, the link and the debit of the run that
\* failed
C5_Witness ==
    /\ hist.outcome = "failed"
    /\ job.status = "failed"
    /\ job.resume_count = 0
    /\ job.completed_questions # EmptyDict
    /\ job.question_set_id # 0
    /\ question_sets > 0
    /\ perm.token_used > 0
    /\ other.debits = 0

\* C6: an invocation for a job that does not exist or whose status is neither
\* pending nor resuming changes no row, calls no agent and pushes no event
C6_RejectedRunHasNoEffect ==
    [][(RunStart /\ ~(job.exists /\ job.status \in {"pending", "resuming"})) =>
          UNCHANGED <<job, perm, question_sets, session, rpc, run, tasks, pipe,
                      semaphore, quota_exhausted, tracker, job_events, result>>]_vars

\* invocations were rejected for a completed job
C6_Witness ==
    /\ hist.outcome = "rejected"
    /\ job.exists
    /\ job.status = "completed"
    /\ rpc = "idle"

\* C7: for an enabled grant with a cap, check_quota is not ok for any positive
\* estimate while used >= cap, and after a debit that brought used to the cap
\* no check with a positive estimate was answered ok
C7_QuotaMonotone ==
    /\ \A estimated \in Estimates :
          (/\ EnabledWithCap(perm)
           /\ perm.token_used >= perm.monthly_quota
           /\ estimated > 0)
          => ~check_quota(perm, estimated)
    /\ (/\ quota_check.called
        /\ quota_check.cap_reached
        /\ quota_check.estimated > 0
        /\ EnabledWithCap(perm))
       => ~quota_check.ok

\* debits passed a positive cap and a check with a positive estimate was
\* refused
C7_Witness ==
    /\ EnabledWithCap(perm)
    /\ perm.monthly_quota > 0
    /\ perm.token_used > perm.monthly_quota
    /\ quota_check.called
    /\ quota_check.cap_reached
    /\ quota_check.estimated > 0
    /\ ~quota_check.ok

\* what C8 says check_quota answers
ExpectedOk(p, estimated) ==
    IF ~p.exists \/ ~p.is_enabled THEN FALSE
    ELSE IF p.quota_none THEN TRUE
    ELSE p.monthly_quota - p.token_used >= estimated

\* C8: check_quota is not ok without a grant or with a disabled one, ok for
\* every estimate under an enabled grant without cap, otherwise ok exactly when
\* cap - used >= estimate, and it leaves the ledger as it is
C8_CheckQuotaAnswer ==
    [][CheckQuota =>
          /\ perm' = perm
          /\ quota_check'.ok = ExpectedOk(perm, quota_check'.estimated)]_vars

\* a check at the boundary cap - used = estimate was answered ok, under a
\* grant that has debits
C8_Witness ==
    /\ quota_check.called
    /\ quota_check.ok
    /\ EnabledWithCap(perm)
    /\ perm.token_used > 0
    /\ quota_check.estimated > 0
    /\ perm.monthly_quota - perm.token_used = quota_check.estimated

\* C9: the used counter never decreases; the commit of a completed run raises
\* it by exactly the estimate made at run start for the positions then
\* remaining; a run that ends failed leaves it as it was
C9_SingleDebit ==
    [][/\ perm'.token_used >= perm.token_used
       /\ RunCompletes => perm'.token_used = perm.token_used + run.estimated
       /\ RunFails => perm'.token_used = perm.token_used]_vars

\* the used counter is below a debit that was committed: a later commit wrote
\* a sum made from an older reading
C9_Witness ==
    /\ hist.outcome = "completed"
    /\ job.status = "completed"
    /\ job.resume_count = 0
    /\ other.debits = 1
    /\ other.pc = "idle"
    /\ perm.token_used < job.token_consumed

\* the estimate made at run start exceeds what the grant had left
QuotaShortAtStart ==
    /\ EnabledWithCap(run.perm_at_start)
    /\ run.perm_at_start.monthly_quota - run.perm_at_start.token_used < run.estimated

\* C10: when at run start the grant has less left than the estimate for the
\* remaining positions, the quota flag is set before any pipeline starts, no
\* generate call is made, every position ends skipped with one warning, and
\* the run ends completed with nothing approved
C10_QuotaShortSkipsAll ==
    /\ []((rpc = "pipelines" /\ QuotaShortAtStart) =>
            /\ quota_exhausted
            /\ \A i \in DOMAIN pipe :
                  /\ pipe[i].gen_calls = 0
                  /\ Terminal(pipe[i]) =>
                        /\ Skipped(pipe[i])
                        /\ Len(pipe[i].warnings) = 1)
    /\ [][(rpc # "idle" /\ rpc' = "idle" /\ QuotaShortAtStart) =>
             /\ hist'.outcome = "completed"
             /\ hist'.approved = {}
             /\ job'.status = "completed"]_vars

\* a run that started with less quota left than its estimate made generate
\* calls with the flag clear
C10_Witness ==
    /\ rpc = "pipelines"
    /\ QuotaShortAtStart
    /\ run.perm_at_start.monthly_quota - run.perm_at_start.token_used = 0
    /\ ~quota_exhausted
    /\ \E i \in DOMAIN pipe : Approved(pipe[i])

\* a warning string names the position: a pipeline warning of the position, or
\* the assembler's line listing its question number
RefersTo(w, position) ==
    \/ w.pos = position
    \/ \E k \in DOMAIN w.numbers : w.numbers[k] = position

WarningsReferringTo(warnings, position) ==
    {k \in DOMAIN warnings : RefersTo(warnings[k], position)}

\* the warnings generate returns for the given pipeline results
GenerateWarnings(ts, ps) ==
    ResultWarnings(ts, ps, 1)
        \o AssembleAgent_run(approved_questions(run.existing_questions, ts, ps),
                             difficulty_results(ps)).warnings

\* position i has target level medium and is in its last round, which passed
\* the quality check; generation succeeded, the quality check passed and every
\* attempt was graded correct in each earlier round (the task's feedback and
\* the counters fix the earlier rounds for max_retry up to 1)
TooEasyMediumLastRound(i) ==
    /\ rpc = "pipelines"
    /\ run.max_retry <= 1
    /\ tasks[i].target_difficulty_level = "medium"
    /\ pipe[i].pc = "solve_grade"
    /\ ~pipe[i].force_pass
    /\ pipe[i].retry_count = run.max_retry
    /\ run.max_retry = 1 => tasks[i].retry_feedback = "too_easy"

\* C11: a medium position whose every round passes the quality check and has
\* all attempts graded correct (max_retry up to 1) ends its last round with the
\* forced approve after max_retry + 1 generate calls, and when it is the last
\* of the positions to end and all are approved, the warnings generate returns
\* hold exactly one string that refers to it
C11_OneWarningForForcedPosition ==
    [][\A i \in DOMAIN pipe :
          ( /\ TooEasyMediumLastRound(i)
            /\ pipe'[i].diff_result.total_attempts = run.solve_count
            /\ pipe'[i].diff_result.pass_count = run.solve_count
            /\ \A j \in DOMAIN pipe : Approved(pipe'[j]) ) =>
                /\ pipe'[i].gen_calls = run.max_retry + 1
                /\ pipe'[i].diff_result.difficulty_warning
                /\ Cardinality(WarningsReferringTo(GenerateWarnings(tasks', pipe'),
                                                   tasks[i].position_index)) = 1]_vars

\* generate has returned, every position approved, and the medium position,
\* approved in its last round with all attempts correct, is named by its own
\* pipeline warning and again by the assembler's line
C11_Witness ==
    /\ rpc = "generated"
    /\ \E i \in DOMAIN pipe :
          /\ run.max_retry <= 1
          /\ tasks[i].target_difficulty_level = "medium"
          /\ pipe[i].retry_count = run.max_retry
          /\ run.max_retry = 1 => tasks[i].retry_feedback = "too_easy"
          /\ \A j \in DOMAIN pipe : Approved(pipe[j])
          /\ pipe[i].diff_result.pass_count = run.solve_count
          /\ pipe[i].diff_result.total_attempts = run.solve_count
          /\ pipe[i].gen_calls = run.max_retry + 1
          /\ pipe[i].diff_result.difficulty_warning
          /\ \E k, m \in DOMAIN result.warnings :
                /\ k # m
                /\ result.warnings[k] = Warning("difficulty", tasks[i].position_index)
                /\ result.warnings[m].kind = "assemble"
                /\ RefersTo(result.warnings[m], tasks[i].position_index)

\* the pipeline is inside async with semaphore, between the start of a
\* generate call and the end of that round
HoldsSlot(p) == p.pc \in {"generate", "quality_check", "solve_grade"}

SlotHolders == {i \in DOMAIN pipe : HoldsSlot(pipe[i])}

\* C12: at any time at most run.concurrency pipelines hold a slot, the held
\* and the free slots add up to the configured concurrency, a pipeline whose
\* round is rejected holds no slot afterwards, and a generate call starts only
\* from a pipeline that held no slot and took a free one
C12_ConcurrencyCapped ==
    /\ [](rpc = "pipelines" =>
            /\ Cardinality(SlotHolders) <= run.concurrency
            /\ Cardinality(SlotHolders) + semaphore = run.concurrency)
    /\ [][\A i \in DOMAIN pipe :
            (i \in DOMAIN pipe' /\ rpc = "pipelines" /\ rpc' = "pipelines") =>
              /\ pipe'[i].retry_count > pipe[i].retry_count =>
                    /\ HoldsSlot(pipe[i])
                    /\ ~HoldsSlot(pipe'[i])
                    /\ semaphore' = semaphore + 1
              /\ pipe'[i].gen_calls > pipe[i].gen_calls =>
                    /\ ~HoldsSlot(pipe[i])
                    /\ HoldsSlot(pipe'[i])
                    /\ semaphore > 0
                    /\ semaphore' = semaphore - 1]_vars

\* every slot is taken while another pipeline, back from a rejected round,
\* waits for one
C12_Witness ==
    /\ rpc = "pipelines"
    /\ run.concurrency = 2
    /\ Cardinality(SlotHolders) = run.concurrency
    /\ semaphore = 0
    /\ \E i \in DOMAIN pipe :
          /\ pipe[i].pc = "acquire"
          /\ pipe[i].retry_count > 0
          /\ pipe[i].gen_calls > 0

\* the pipeline returned without a question and its last warning is the
\* quota warning of its position
QuotaSkipped(i, p) ==
    /\ p.pc = "returned"
    /\ p.question = NoQuestion
    /\ p.warnings # << >>
    /\ p.warnings[Len(p.warnings)] = Warning("quota", tasks[i].position_index)

\* C13: once set, the quota flag stays set for the rest of the run; while it
\* is set no generate call is started; a pipeline that takes a slot then
\* returns skipped with the quota warning of its position and gives the slot
\* back; a pipeline that is inside a round makes the step of its stage and is
\* not skipped for quota in that round
C13_QuotaFlagHonoured ==
    [][(quota_exhausted /\ rpc = "pipelines") =>
          /\ rpc' = "pipelines" => quota_exhausted'
          /\ \A i \in DOMAIN pipe :
                (i \in DOMAIN pipe' /\ pipe'[i] # pipe[i]) =>
                    /\ pipe'[i].gen_calls = pipe[i].gen_calls
                    /\ pipe[i].pc = "acquire" =>
                          /\ QuotaSkipped(i, pipe'[i])
                          /\ semaphore' = semaphore
                          /\ tasks' = tasks
                    /\ HoldsSlot(pipe[i]) =>
                          /\ ~QuotaSkipped(i, pipe'[i])
                          /\ semaphore' = semaphore + 1 \/ HoldsSlot(pipe'[i])]_vars

\* the flag was set while one position was inside a round; that round ended
\* approved, and another position, which took its slot afterwards, was skipped
\* for quota without a generate call
C13_Witness ==
    /\ quota_exhausted
    /\ \E i, j \in DOMAIN pipe :
          /\ tasks[i].position_index \in hist.in_flight
          /\ Approved(pipe[i])
          /\ tasks[j].position_index \notin hist.in_flight
          /\ QuotaSkipped(j, pipe[j])
          /\ pipe[j].gen_calls = 0

\* the step in which generate leaves the results of gather: it returns or
\* raises
GenerateEnds ==
    /\ rpc = "pipelines"
    /\ rpc' # "pipelines"
    /\ \A i \in DOMAIN pipe : Terminal(pipe[i])

RegenerateAccepted == regen.pc = "idle" /\ regen'.pc = "round"

\* regenerate_question commits and answers in this step
RegenerateReturns == regen.pc = "flushed" /\ regen'.pc = "idle"

\* what C15 says apart from the ledger: the checks made before acceptance, at
\* most regen_max_retry + 1 rounds with the last candidate let through, no
\* write before the commit, and a checkpoint map changed at key p only
RegenerateFrame ==
    /\ RegenerateAccepted =>
          /\ job.exists /\ job.status = "completed"
          /\ check_quota(perm, estimate_tokens(1, 1))
          /\ regen'.position_index \in 1..total_questions
    /\ (regen.pc = "idle" /\ regen' # regen) =>
          /\ RegenerateAccepted
          /\ UNCHANGED <<job, perm, paper, runVars>>
    /\ regen.pc = "round" => regen.attempt <= regen_max_retry
    /\ (regen.pc = "round" /\ regen' # regen) =>
          /\ UNCHANGED <<job, perm, runVars>>
          /\ \/ regen'.pc = "round" /\ regen'.attempt = regen.attempt + 1
                                     /\ regen'.attempt <= regen_max_retry
                                     /\ paper' = paper
             \/ regen'.pc = "flushed"
             \/ regen'.pc = "idle" /\ regen'.outcome = "error" /\ paper' = paper
    /\ RegenerateReturns =>
          LET p == regen.position_index
          IN  /\ DOMAIN job'.completed_questions
                    = DOMAIN job.completed_questions \cup {p}
              /\ \A k \in DOMAIN job.completed_questions \ {p} :
                    job'.completed_questions[k] = job.completed_questions[k]
              /\ job'.completed_questions[p] = SerializeQuestion(regen.question)
              /\ job' = [job EXCEPT !.completed_questions = job'.completed_questions]
              /\ UNCHANGED runVars

\* C15: regenerate_question is accepted only for an existing completed job
\* with quota for one question and a position inside 1..total; it makes at
\* most 3 generate and quality-check rounds and no other agent call; a request
\* that is refused or fails writes nothing; on return the checkpoint map
\* differs from its previous value at key p only and the used counter is the
\* previous one plus the estimate for one question
C15_RegenerateOne ==
    [][/\ RegenerateFrame
       /\ RegenerateReturns =>
             perm'.token_used = perm.token_used + estimate_tokens(1, 1)]_vars

\* a regeneration about to commit a used counter computed from a reading that
\* is no longer the committed one
C15_Witness ==
    /\ regen.pc = "flushed"
    /\ job.status = "completed"
    /\ regen.token_used # perm.token_used + estimate_tokens(1, 1)

\* the six fields a checkpoint entry keeps of a question
SixFields(q) ==
    <<q.question_type, q.question_text, q.options, q.correct_answer,
      q.explanation, q.scoring_points>>

\* the question carries the fields of the checkpoint entry
CarriesEntry(q, entry) ==
    /\ q.question_type = entry.type
    /\ q.question_text = entry.content
    /\ q.options.is_none = entry.options.null
    /\ Len(q.options.items) = Len(entry.options.list)
    /\ \A k \in DOMAIN q.options.items :
          /\ q.options.items[k][1] = entry.options.list[k].key
          /\ q.options.items[k][2] = entry.options.list[k].value
    /\ q.correct_answer = entry.answer
    /\ q.explanation = entry.explanation
    /\ q.scoring_points = entry.scoring_points

QualityRetry(i) ==
    /\ pipe[i].pc = "quality_check"
    /\ pipe'[i].retry_count > pipe[i].retry_count
    /\ tasks'[i].retry_feedback = "quality_check_failed"

\* the quality check of position i fails in this step and the candidate is
\* let through
QualityForced(i) ==
    /\ pipe[i].pc = "quality_check"
    /\ pipe'[i].force_pass

\* C17: a quality-check failure with retry_count < max_retry stores the
\* feedback on the task, raises both retry counters by one and sends the
\* pipeline back to the start of a round without solve or grade; a failure
\* with retry_count = max_retry lets the candidate through to solve, grade and
\* calibration, and when that candidate is approved, last of an all-approved
\* run, the warnings generate returns hold an entry for its position
C17_QualityFailure ==
    [][\A i \in DOMAIN pipe :
          (rpc = "pipelines" /\ rpc' = "pipelines") =>
            /\ QualityRetry(i) =>
                  /\ pipe[i].retry_count < run.max_retry
                  /\ pipe'[i].retry_count = pipe[i].retry_count + 1
                  /\ tasks'[i].retry_count = tasks[i].retry_count + 1
                  /\ pipe'[i].pc = "acquire"
                  /\ pipe'[i].question = NoQuestion
            /\ QualityForced(i) =>
                  /\ pipe[i].retry_count = run.max_retry
                  /\ pipe'[i].pc = "solve_grade"
                  /\ pipe'[i].question = pipe[i].question
                  /\ tasks' = tasks
            /\ ( /\ pipe[i].pc = "solve_grade"
                 /\ pipe[i].force_pass
                 /\ \A j \in DOMAIN pipe : Approved(pipe'[j]) ) =>
                  WarningsReferringTo(GenerateWarnings(tasks', pipe'),
                                      tasks[i].position_index) # {}]_vars

\* a candidate let through a failed quality check is in solve and grade, with
\* no warning on its pipeline, while every other position is approved
C17_Witness ==
    /\ rpc = "pipelines"
    /\ \E i \in DOMAIN pipe :
          /\ pipe[i].pc = "solve_grade"
          /\ pipe[i].force_pass
          /\ pipe[i].retry_count = run.max_retry
          /\ pipe[i].warnings = << >>
          /\ \A j \in DOMAIN pipe \ {i} : Approved(pipe[j])

\* rounds of position i that were rejected so far: the generate calls started,
\* less the round that is under way or that ended the pipeline otherwise
RejectedRounds(i) ==
    IF HoldsSlot(pipe[i]) \/ Approved(pipe[i]) \/ pipe[i].pc = "raised"
    THEN pipe[i].gen_calls - 1
    ELSE pipe[i].gen_calls

\* the stage a feedback comes from
FeedbackStage(feedback) ==
    CASE feedback = "generate_failed" -> "generate"
      [] feedback = "quality_check_failed" -> "quality_check"
      [] feedback \in {"too_easy", "too_hard"} -> "solve_grade"
      [] OTHER -> "none"

\* C18: for every position the task's retry_count, the pipeline's retry
\* counter and the number of rounds rejected so far are equal and at most
\* max_retry + 1; the calibrator result of an approved position carries that
\* counter; and each rejection, whether of the generate call, the quality
\* check or the calibrator, raises it by exactly one
C18_SharedRetryBudget ==
    /\ [](\A i \in DOMAIN pipe :
            /\ tasks[i].retry_count = pipe[i].retry_count
            /\ pipe[i].retry_count = RejectedRounds(i)
            /\ pipe[i].retry_count <= run.max_retry + 1
            /\ Approved(pipe[i]) =>
                  pipe[i].diff_result.retry_count = pipe[i].retry_count)
    /\ [][\A i \in DOMAIN pipe :
            (i \in DOMAIN pipe' /\ pipe'[i].retry_count # pipe[i].retry_count) =>
                /\ pipe'[i].retry_count = pipe[i].retry_count + 1
                /\ FeedbackStage(tasks'[i].retry_feedback) = pipe[i].pc]_vars

\* a position skipped after max_retry + 1 rejections of which the last came
\* from the generate call, in a run where another position was rejected by the
\* calibrator and a third by the quality check
C18_Witness ==
    /\ rpc = "pipelines"
    /\ run.max_retry = 1
    /\ \E i, j, k \in DOMAIN pipe :
          /\ pipe[i].pc = "returned"
          /\ pipe[i].retry_count = run.max_retry + 1
          /\ tasks[i].retry_count = run.max_retry + 1
          /\ pipe[i].gen_calls = run.max_retry + 1
          /\ tasks[i].retry_feedback = "generate_failed"
          /\ tasks[j].retry_feedback \in {"too_easy", "too_hard"}
          /\ pipe[j].retry_count = 1
          /\ tasks[k].retry_feedback = "quality_check_failed"
          /\ pipe[k].retry_count = 1

\* the target intervals as the claim gives them, in hundredths
ClaimedInterval(level) ==
    CASE level = "easy" -> <<65, 100>>
      [] level = "medium" -> <<40, 75>>
      [] level = "hard" -> <<0, 50>>

\* the target intervals with the hard bucket starting at 0.10
AmendedInterval(level) ==
    CASE level = "easy" -> <<65, 100>>
      [] level = "medium" -> <<40, 75>>
      [] level = "hard" -> <<10, 50>>

\* the decision, the feedback and the forced flag of the recorded call follow
\* from c/K and the closed interval [lo, hi] (in hundredths)
DecisionFollows(interval) ==
    LET o == calib.out
        inside == /\ interval[1] * calib.K <= 100 * calib.c
                  /\ 100 * calib.c <= interval[2] * calib.K
        approve == inside \/ calib.retry_count >= calib.max_retry
    IN  /\ o.pass_count = calib.c
        /\ o.total_attempts = calib.K
        /\ o.coef_num * calib.K = calib.c * o.coef_den
        /\ o.decision = IF approve THEN "approve" ELSE "retry"
        /\ ~approve =>
              o.feedback = IF 100 * calib.c > interval[2] * calib.K
                           THEN "too_easy" ELSE "too_hard"
        /\ o.difficulty_warning = (approve /\ ~inside)
        /\ o.retry_count = calib.retry_count

GenerateRaises(i) ==
    /\ i \in DOMAIN pipe'
    /\ pipe[i].pc = "generate"
    /\ pipe'[i].retry_count > pipe[i].retry_count

\* an exception leaves the pipeline of position i in this step
PipelineRaises(i) ==
    /\ i \in DOMAIN pipe'
    /\ pipe[i].pc # "raised"
    /\ pipe'[i].pc = "raised"

RECURSIVE CoveringType(_, _)
CoveringType(distribution, pos) ==
    IF pos <= Head(distribution).count THEN Head(distribution).question_type
    ELSE CoveringType(Tail(distribution), pos - Head(distribution).count)

\* C21: for a distribution and a set of positions already checkpointed, the
\* tasks dispatch returns have strictly increasing position indices, these are
\* exactly 1..sum of the counts without the checkpointed ones, each task has
\* the question type of the entry whose index range covers its position, and
\* a position carries the same number and type in a first run and in a resume
C21_TaskBuilderPositions ==
    disp.called =>
        LET distribution == disp.requirement.question_distribution
            total == SumCounts(distribution)
            ts == disp.tasks
        IN  /\ \A i \in 1..(Len(ts) - 1) :
                  ts[i].position_index < ts[i + 1].position_index
            /\ {ts[i].position_index : i \in DOMAIN ts}
                  = (1..total) \ disp.already_done_positions
            /\ \A i \in DOMAIN ts :
                  ts[i].question_type
                     = CoveringType(distribution, ts[i].position_index)
            /\ Len(disp.first) = total
            /\ \A i \in DOMAIN disp.first : disp.first[i].position_index = i
            /\ \A i \in DOMAIN ts :
                  ts[i].question_type
                     = disp.first[ts[i].position_index].question_type

\* a resume of a requirement with two entries of different types that skips
\* position 2 in the middle of the first entry and returns positions 1, 3, 4
C21_Witness ==
    /\ disp.called
    /\ disp.requirement.question_distribution
          = << [question_type |-> "single_choice", count |-> 2],
               [question_type |-> "fill_blank", count |-> 2] >>
    /\ disp.already_done_positions = {2}
    /\ Len(disp.tasks) = 3
    /\ disp.tasks[2].position_index = 3
    /\ disp.tasks[2].question_type = "fill_blank"

\* position before the first slot of entry e of the distribution
RECURSIVE Offset(_, _)
Offset(distribution, e) ==
    IF e = 1 THEN 0
    ELSE Offset(distribution, e - 1) + distribution[e - 1].count

\* target bucket of the slot at rank r of entry e in a first run
Bucket(e, r) ==
    disp.first[Offset(disp.requirement.question_distribution, e) + r]
        .target_difficulty_level

Hardness(level) ==
    CASE level = "easy" -> 1 [] level = "medium" -> 2 [] OTHER -> 3

\* the bucket depends on rank, slot count and shares only: two entries with
\* the same count agree rank by rank, and a resume gives every remaining
\* position the bucket it has in the first run
BucketsByRankOnly ==
    LET distribution == disp.requirement.question_distribution
    IN  /\ \A e1, e2 \in DOMAIN distribution :
              distribution[e1].count = distribution[e2].count
                 => \A r \in 1..distribution[e1].count :
                       Bucket(e1, r) = Bucket(e2, r)
        /\ \A i \in DOMAIN disp.tasks :
              disp.tasks[i].target_difficulty_level
                 = disp.first[disp.tasks[i].position_index].target_difficulty_level

\* along increasing rank the bucket never becomes an easier one
BucketsNeverEasier ==
    LET distribution == disp.requirement.question_distribution
    IN  \A e \in DOMAIN distribution :
           \A r1, r2 \in 1..distribution[e].count :
              r1 < r2 => Hardness(Bucket(e, r1)) <= Hardness(Bucket(e, r2))

\* the slots of a level are the share of the n slots the level has: their
\* number is the share times n rounded down or rounded up
ShareOfSlots(level, share) ==
    LET distribution == disp.requirement.question_distribution
    IN  \A e \in DOMAIN distribution :
           LET n == distribution[e].count
               k == Cardinality({r \in 1..n : Bucket(e, r) = level})
           IN  /\ 10 * k < share * n + 10
               /\ 10 * k > share * n - 10

C22_RankAndOrder ==
    disp.called => BucketsByRankOnly /\ BucketsNeverEasier

InPushOrder(seq) == \A i, j \in DOMAIN seq : i < j => seq[i] < seq[j]

\* what a stream has yielded and what its queue still holds are in the order
\* of the pushes
DeliveredInOrder ==
    /\ \A q \in DOMAIN bus.queues : InPushOrder(bus.queues[q])
    /\ \A s \in Subscribers :
          /\ InPushOrder(bus.sub[s].received)
          /\ bus.sub[s].state = "streaming"
                => InPushOrder(bus.sub[s].received \o bus.queues[bus.sub[s].queue])

\* a step in which _push_to_queue is called
PushStep == bus'.pushed = bus.pushed + 1

\* a step in which put_nowait is called on queue q (by the scheduled callback
\* or directly) while q holds maxsize messages
PutOnFull(q) ==
    /\ Len(bus.queues[q]) >= QueueMaxsize
    /\ \/ /\ bus.scheduled # << >>
          /\ bus'.scheduled = Tail(bus.scheduled)
          /\ Head(bus.scheduled).queue = q
       \/ /\ PushStep
          /\ ~bus.main_loop_running
          /\ bus.registry = q

\* C24: a push never blocks or fails the run: it can be made whenever the run
\* has an event, and raises nothing; a put on a queue that holds its bound of
\* undelivered events drops the new event and keeps the queued ones in their
\* order; a push for a job without a queue drops the event; what is enqueued
\* reaches the stream in the order of the pushes
C24_PushNeverBlocks ==
    /\ [](/\ bus.pushed < BusEvents => ENABLED Push
          /\ ~bus.push_raised
          /\ DeliveredInOrder)
    /\ [][/\ \A q \in DOMAIN bus.queues :
                PutOnFull(q) => bus'.queues = bus.queues
          /\ (PushStep /\ bus.registry = 0)
                => /\ bus'.queues = bus.queues
                   /\ bus'.scheduled = bus.scheduled
          /\ PushStep => /\ bus'.sub = bus.sub
                         /\ bus'.registry = bus.registry]_vars

\* the queue of the job holds its bound of messages, a further event was
\* dropped by the callback on the main loop, and the stream has yielded the
\* first event
C24_Witness ==
    /\ bus.callback_errors = 1
    /\ bus.registry = 1
    /\ Len(bus.queues[1]) = QueueMaxsize
    /\ bus.sub[1].state = "streaming"
    /\ bus.sub[1].received = <<1>>
    /\ bus.sub[2].state = "idle"

\* stream s goes on on the queue that stream o, now closed, had subscribed to
\* as well, every event of the run was pushed, no put found the queue full,
\* and nothing is left to run on the main loop or to take from the queue
LeftAfterUnsubscribe(s, o) ==
    /\ s # o
    /\ bus.sub[o].state = "closed"
    /\ bus.sub[s].state = "streaming"
    /\ bus.sub[s].queue = bus.sub[o].queue
    /\ bus.main_loop_running
    /\ bus.callback_errors = 0
    /\ bus.pushed = BusEvents
    /\ bus.scheduled = << >>
    /\ bus.queues[bus.sub[s].queue] = << >>

\* C30: of two streams of one running job, the one that stays after the other
\* has unsubscribed is given every event pushed after that unsubscribe, the
\* job end included, so that it ends
C30_RemainingSubscriberServed ==
    \A s, o \in Subscribers :
        LeftAfterUnsubscribe(s, o)
           => \A msg \in (bus.closed_at + 1)..BusEvents :
                 msg \in SeqRange(bus.sub[s].received)

\* both streams had subscribed and one of them closed when one event had been
\* pushed; the run pushed its other events and its job end: the stream that
\* stayed has none of them and nothing is on its way to it
C30_Witness ==
    \E s, o \in Subscribers :
        /\ LeftAfterUnsubscribe(s, o)
        /\ bus.closed_at = 1
        /\ \A msg \in 2..BusEvents : msg \notin SeqRange(bus.sub[s].received)
        /\ bus.registry = 0

\* the invocations of _run_async for the job that are past the status test
PastGuard == {r \in RunThreads : guard.runs[r] \in {"admitted", "generating"}}

\* C25: for one job, whatever the interleaving of the submit, of concurrent
\* resume requests and of the background invocations, at most one invocation
\* of _run_async is past the status test at a time
C25_OneRunPastGuard == Cardinality(PastGuard) <= 1

\* two resume requests loaded the failed job before either committed, both
\* were accepted, and the two invocations they started are both generating
C25_Witness ==
    /\ guard.accepted = 2
    /\ \A r \in RunThreads : guard.runs[r] = "generating"

\* the status changes the claim allows
StatusEdges ==
    { <<"pending", "running">>, <<"resuming", "running">>,
      <<"running", "completed">>, <<"running", "failed">>,
      <<"failed", "resuming">> }

\* a step in which a resume request is accepted
ResumeAccepted == guard'.accepted = guard.accepted + 1

\* C26: the persisted status of a job changes only along pending -> running,
\* resuming -> running, running -> completed, running -> failed and
\* failed -> resuming, so a completed job keeps its status; a resume request
\* is accepted only while the status is failed, and each accepted request
\* raises the resume counter by exactly one
C26_StatusEdges ==
    [][/\ (guard.status # "none" /\ guard'.status # guard.status)
             => <<guard.status, guard'.status>> \in StatusEdges
       /\ ResumeAccepted
             => /\ guard.status = "failed"
                /\ guard'.resume_count = guard.resume_count + 1]_vars

\* two resume requests were accepted for the job and its resume counter is 1;
\* the second one has put the status back from running to resuming while the
\* run started by the first is generating
C26_Witness ==
    /\ guard.accepted = 2
    /\ guard.resume_count = 1
    /\ guard.status = "resuming"
    /\ \E r \in RunThreads : guard.runs[r] = "generating"

\* a step in which an invocation of _run_async that had marked the job
\* running returns
RunReturns == rpc # "idle" /\ rpc' = "idle"

\* the job-lifecycle end event that goes with a persisted status
EndEventOf(status) ==
    IF status = "completed" THEN "job_completed" ELSE "job_failed"

\* C27: a run that has marked its job running leaves the job, when it ends,
\* in status completed or failed, and pushes exactly one job-lifecycle end
\* event, the one that goes with the persisted status, as its last event; no
\* job is left in status running by a run that has ended, also when the
\* failure handler cannot persist
C27_RunEndsInFinalStatus ==
    [][RunReturns =>
          /\ job'.status \in {"completed", "failed"}
          /\ job_events' = Append(job_events, EndEventOf(job'.status))]_vars

\* the part of C27 that holds: a run whose end is persisted leaves the status
\* completed or failed and pushes the matching end event last
C27_WhenEndIsPersisted ==
    [][(RunReturns /\ hist'.outcome # "handler_failed") =>
          /\ job'.status \in {"completed", "failed"}
          /\ job_events' = Append(job_events, EndEventOf(job'.status))]_vars

\* a run has ended through the except branch whose update_status(failed) was
\* rolled back: job_failed was pushed and the job row still says running
C27_Witness ==
    /\ rpc = "idle"
    /\ hist.outcome = "handler_failed"
    /\ job.status = "running"
    /\ job_events # << >>
    /\ job_events[Len(job_events)] = "job_failed"

\* a step in which generate goes past the gather of its pipelines
PastGather == rpc = "pipelines" /\ rpc' # "pipelines"

\* C28: for every concurrency value the configuration accepts, 0 included,
\* and any number of positions, all pipelines of a run end and generate
\* reaches its merge, and at that point every slot of the semaphore is free
\* again, also when a pipeline ended by an exception
C28_GovernorTerminates ==
    /\ <>(rpc # "pipelines")
    /\ [][PastGather => semaphore = run.concurrency]_vars

\* the part of C28 that holds: with one slot or more the pipelines end and
\* the slots are free at the merge
C28_WithSomeSlot ==
    /\ (run.concurrency > 0) => <>(rpc # "pipelines")
    /\ [][PastGather => semaphore = run.concurrency]_vars

\* a run with exam_agent_concurrency 0: every pipeline waits for a slot of a
\* semaphore that has none and that nothing holds
C28_Witness ==
    /\ rpc = "pipelines"
    /\ run.concurrency = 0
    /\ semaphore = 0
    /\ pipe # << >>
    /\ \A i \in DOMAIN pipe : pipe[i].pc = "acquire" /\ pipe[i].gen_calls = 0
    /\ ~ENABLED NextGenerator

\* the terminal task events the tracker has counted
TerminalEvents(tr) == tr.completed + tr.skipped

\* the pipeline of task i ends in this step
PipelineEnds(i) ==
    /\ i \in DOMAIN pipe
    /\ i \in DOMAIN pipe'
    /\ ~Terminal(pipe[i])
    /\ Terminal(pipe'[i])

\* C29: a pipeline that ends, approved, out of retries, on the quota flag or
\* by an exception that leaves it, emits exactly one terminal task event,
\* question_approved or question_skipped, as its last event; so when all
\* pipelines of a run have ended the tracker has completed + skipped equal to
\* the number of dispatched tasks, at most total, and no current action left
\* for a position
C29_TerminalTaskEvent ==
    /\ [][\A i \in DOMAIN pipe :
             PipelineEnds(i) =>
                /\ TerminalEvents(tracker') = TerminalEvents(tracker) + 1
                /\ tasks[i].position_index \notin DOMAIN tracker'.current_actions]_vars
    /\ []((rpc = "pipelines" /\ \A i \in DOMAIN pipe : Terminal(pipe[i])) =>
             /\ TerminalEvents(tracker) = Len(tasks)
             /\ Len(tasks) <= tracker.total
             /\ tracker.current_actions = EmptyDict)

\* the part of C29 that holds: a pipeline that is approved or gives up after
\* its last retry emits its terminal event last
C29_ApprovedOrOutOfRetries ==
    [][\A i \in DOMAIN pipe :
          (/\ PipelineEnds(i)
           /\ pipe'[i].pc = "returned"
           /\ \/ pipe'[i].question # NoQuestion
              \/ pipe'[i].warnings[Len(pipe'[i].warnings)].kind = "max_retry") =>
             /\ TerminalEvents(tracker') = TerminalEvents(tracker) + 1
             /\ tasks[i].position_index \notin DOMAIN tracker'.current_actions]_vars

\* all pipelines of the run have ended, one of them by an exception of its
\* quality check: the tracker has counted one terminal event less than there
\* are tasks and still shows an action for that position
C29_Witness ==
    /\ rpc = "pipelines"
    /\ \A i \in DOMAIN pipe : Terminal(pipe[i])
    /\ \E i \in DOMAIN pipe :
          /\ pipe[i].pc = "raised"
          /\ \A k \in DOMAIN pipe : k # i => pipe[k].pc = "returned"
          /\ tasks[i].position_index \in DOMAIN tracker.current_actions
    /\ TerminalEvents(tracker) = Len(tasks) - 1
====
